---- MODULE Spec2Model ----
(***************************************************************************)
(* A model of apple-sdk/src/lib.rs: the SDK version model, the platform    *)
(* and SDK path parsers, the root locators and SdkSearch::search.          *)
(*                                                                         *)
(* Paths are sequences of component names.  A component name is a string;  *)
(* the parsers work on its characters (Chars), as the code works on the    *)
(* characters of file_name().to_str().  The filesystem and the process     *)
(* environment are not owned by the program: every call into them          *)
(* (read_dir, exists, env::var, running xcode-select) draws its answer     *)
(* from the answers the operating system can give at that moment.          *)
(***************************************************************************)
EXTENDS Integers, Sequences, FiniteSets, TLC

(***************************************************************************)
(* Bounds of the model.                                                    *)
(***************************************************************************)
\* The longest generated version string given to the parsers, and the longest
\* generated version string given to the comparisons, in characters.
MaxVersionLen == 3
MaxPairLen == 2

\* The longest generated SDK directory name before its suffix, in characters.
MaxSdkNameLen == 3

\* The most entries a directory listed on its own holds.
MaxEntries == 4

\* Builder calls chained on SdkSearch::default() before search().
MaxCalls == 2

\* The most builder calls before a search that is then repeated.
MaxRepeatedCalls == 1

(***************************************************************************)
(* Characters.                                                             *)
(***************************************************************************)
\* The printable ASCII characters in code order: AsciiChars[i] has code i + 31
\* (the double quote, the backslash and the backtick are spelled out).
AsciiChars ==
   << " ", "!", "dquote", "#", "$", "%", "&", "'", "(", ")", "*", "+", ",", "-", ".", "/",
      "0", "1", "2", "3", "4", "5", "6", "7", "8", "9", ":", ";", "<", "=", ">", "?",
      "@", "A", "B", "C", "D", "E", "F", "G", "H", "I", "J", "K", "L", "M", "N", "O",
      "P", "Q", "R", "S", "T", "U", "V", "W", "X", "Y", "Z", "[", "backslash", "]", "^", "_",
      "backtick", "a", "b", "c", "d", "e", "f", "g", "h", "i", "j", "k", "l", "m", "n", "o",
      "p", "q", "r", "s", "t", "u", "v", "w", "x", "y", "z", "{", "|", "}", "~" >>

\* Characters outside ASCII that the model knows: e-acute (2 bytes in UTF-8,
\* not numeric) and superscript two (2 bytes, char::is_numeric but not a digit).
EAcute == "e'"
SuperTwo == "^2"

\* The line feed that ends a line of a command's output.
LineFeed == "LF"

\* A byte that is no part of any valid UTF-8 string, and the replacement
\* character U+FFFD.
InvalidByte == "0xFF"
Replacement == "U+FFFD"

\* The Unicode scalar value of each character (what char and byte comparisons use).
CodeTable ==
   [c \in {AsciiChars[i] : i \in 1..Len(AsciiChars)} \cup {EAcute, SuperTwo, LineFeed} |->
      IF c = EAcute THEN 233
      ELSE IF c = SuperTwo THEN 178
      ELSE IF c = LineFeed THEN 10
      ELSE (CHOOSE i \in 1..Len(AsciiChars) : AsciiChars[i] = c) + 31]

CodeOf(c) == CodeTable[c]

\* The length of a character's UTF-8 encoding.
len_utf8(c) == IF CodeOf(c) < 128 THEN 1 ELSE 2

\* char::is_ascii_digit, and the digit's value.
IsAsciiDigit(c) == CodeOf(c) >= 48 /\ CodeOf(c) <= 57

DigitValue(c) == CodeOf(c) - 48

\* char::is_numeric: the Unicode categories Nd, Nl and No.
is_numeric(c) == IsAsciiDigit(c) \/ c = SuperTwo

\* char::is_whitespace.
is_whitespace(c) == c \in {" ", LineFeed}

(***************************************************************************)
(* Option and Result values.                                               *)
(***************************************************************************)
None == [some |-> FALSE]
Some(x) == [some |-> TRUE, v |-> x]

Ok(x) == [kind |-> "Ok", val |-> x]
Err(e) == [kind |-> "Err", err |-> e]
IsOk(r) == r.kind = "Ok"
IsErr(r) == r.kind = "Err"

(***************************************************************************)
(* Strings as character sequences.                                         *)
(***************************************************************************)
\* The index of the first occurrence of character c in s, or 0.
FirstIndex(s, c) ==
   IF \E i \in 1..Len(s) : s[i] = c
   THEN CHOOSE i \in 1..Len(s) : s[i] = c /\ \A j \in 1..(i - 1) : s[j] # c
   ELSE 0

\* The index of the last occurrence of character c in s, or 0.
LastIndex(s, c) ==
   IF \E i \in 1..Len(s) : s[i] = c
   THEN CHOOSE i \in 1..Len(s) : s[i] = c /\ \A j \in (i + 1)..Len(s) : s[j] # c
   ELSE 0

\* str::split(c): the parts between the occurrences of c; always at least one part.
RECURSIVE Split(_, _)
Split(s, c) ==
   LET i == FirstIndex(s, c)
   IN IF i = 0 THEN <<s>>
      ELSE <<SubSeq(s, 1, i - 1)>> \o Split(SubSeq(s, i + 1, Len(s)), c)

\* A split around the last occurrence where the code splits around the first.
split_once_last(s, c) ==
   LET i == LastIndex(s, c)
   IN IF i = 0 THEN None
      ELSE Some(<<SubSeq(s, 1, i - 1), SubSeq(s, i + 1, Len(s))>>)

\* str::split_once(c): around the first occurrence.
split_once(s, c) ==
   LET i == FirstIndex(s, c)
   IN IF i = 0 THEN None
      ELSE Some(<<SubSeq(s, 1, i - 1), SubSeq(s, i + 1, Len(s))>>)

\* str::rsplit_once(c): around the last occurrence.
rsplit_once(s, c) ==
   LET i == LastIndex(s, c)
   IN IF i = 0 THEN None
      ELSE Some(<<SubSeq(s, 1, i - 1), SubSeq(s, i + 1, Len(s))>>)

\* The number of characters of s that end at byte offset mid, or -1 when mid is
\* inside a character or beyond the end (n characters and bytes are behind).
RECURSIVE CharsBefore(_, _, _, _)
CharsBefore(s, mid, n, bytes) ==
   IF bytes = mid THEN n
   ELSE IF bytes > mid \/ n = Len(s) THEN -1
   ELSE CharsBefore(s, mid, n + 1, bytes + len_utf8(s[n + 1]))

\* str::split_at(mid), mid a byte offset: panics unless mid is on a character
\* boundary of s.
split_at(s, mid) ==
   LET n == CharsBefore(s, mid, 0, 0)
   IN IF n >= 0
      THEN [kind |-> "Ok", val |-> <<SubSeq(s, 1, n), SubSeq(s, n + 1, Len(s))>>]
      ELSE [kind |-> "Panic"]

CmpInt(x, y) == IF x < y THEN "Less" ELSE IF x > y THEN "Greater" ELSE "Equal"

CmpChar(x, y) == CmpInt(CodeOf(x), CodeOf(y))

\* Ord for str: lexicographic by bytes, which agrees with comparing scalar values.
RECURSIVE CmpStr(_, _)
CmpStr(a, b) ==
   IF Len(a) = 0 /\ Len(b) = 0 THEN "Equal"
   ELSE IF Len(a) = 0 THEN "Less"
   ELSE IF Len(b) = 0 THEN "Greater"
   ELSE LET c == CmpChar(Head(a), Head(b))
        IN IF c # "Equal" THEN c ELSE CmpStr(Tail(a), Tail(b))

\* Ord for (u8, u8, u8): lexicographic.
CmpTriple(a, b) ==
   IF a[1] # b[1] THEN CmpInt(a[1], b[1])
   ELSE IF a[2] # b[2] THEN CmpInt(a[2], b[2])
   ELSE CmpInt(a[3], b[3])

(***************************************************************************)
(* SdkVersion.                                                             *)
(***************************************************************************)
U8Max == 255

\* The value of a sequence of ASCII digits.
RECURSIVE DecimalValue(_)
DecimalValue(ds) ==
   IF Len(ds) = 0 THEN 0
   ELSE 10 * DecimalValue(SubSeq(ds, 1, Len(ds) - 1)) + DigitValue(ds[Len(ds)])

\* A parse that wraps a value beyond u8 instead of refusing it.
u8_from_str_wrapping(x) ==
   LET ds == IF Len(x) > 0 /\ x[1] = "+" THEN Tail(x) ELSE x
   IN IF Len(ds) = 0 \/ \E i \in 1..Len(ds) : ~IsAsciiDigit(ds[i])
      THEN Err("ParseIntError")
      ELSE Ok(DecimalValue(ds) % (U8Max + 1))

\* u8::from_str: an optional "+", then one or more ASCII digits, value <= 255.
u8_from_str(x) ==
   LET ds == IF Len(x) > 0 /\ x[1] = "+" THEN Tail(x) ELSE x
   IN IF Len(ds) = 0 \/ \E i \in 1..Len(ds) : ~IsAsciiDigit(ds[i])
      THEN Err("ParseIntError")
      ELSE IF DecimalValue(ds) > U8Max THEN Err("ParseIntError")
      ELSE Ok(DecimalValue(ds))

SdkVersion(value) == [value |-> value]

normalized_version(self) ==
   LET parts == Split(self.value, ".")
       ints == [i \in 1..Len(parts) |-> u8_from_str(parts[i])]
   IN IF \E i \in 1..Len(ints) : IsErr(ints[i]) THEN Err("VersionParse")
      ELSE IF Len(ints) = 1 THEN Ok(<<ints[1].val, 0, 0>>)
      ELSE IF Len(ints) = 2 THEN Ok(<<ints[1].val, ints[2].val, 0>>)
      ELSE IF Len(ints) = 3 THEN Ok(<<ints[1].val, ints[2].val, ints[3].val>>)
      ELSE Err("VersionParse")

\* Display for u8: the decimal digits, no sign and no leading zero.
RECURSIVE u8_to_string(_)
u8_to_string(n) ==
   IF n < 10 THEN <<AsciiChars[n + 17]>>
   ELSE u8_to_string(n \div 10) \o <<AsciiChars[(n % 10) + 17]>>

\* A semantic_version that prints only the components the string gave.
semantic_version_unpadded(self) ==
   LET r == normalized_version(self)
       n == Len(Split(self.value, "."))
   IN IF IsErr(r) THEN r
      ELSE Ok(u8_to_string(r.val[1])
                 \o (IF n > 1 THEN <<".">> \o u8_to_string(r.val[2]) ELSE <<>>)
                 \o (IF n > 2 THEN <<".">> \o u8_to_string(r.val[3]) ELSE <<>>))

\* SdkVersion::semantic_version: format!("{}.{}.{}", x, y, z).
semantic_version(self) ==
   LET r == normalized_version(self)
   IN IF IsErr(r) THEN r
      ELSE Ok(u8_to_string(r.val[1]) \o <<".">> \o u8_to_string(r.val[2])
                 \o <<".">> \o u8_to_string(r.val[3]))

\* #[derive(PartialEq)] on SdkVersion: the strings are compared.
SdkVersion_eq(self, other) == self.value = other.value

\* unwrap_or((0, 0, 0)) of normalized_version.
NormalizedOrZero(v) ==
   LET r == normalized_version(v) IN IF IsOk(r) THEN r.val ELSE <<0, 0, 0>>

\* An ordering that compares two versions which both fail to parse by their strings.
partial_cmp_raw(self, other) ==
   IF IsErr(normalized_version(self)) /\ IsErr(normalized_version(other))
   THEN CmpStr(self.value, other.value)
   ELSE CmpTriple(NormalizedOrZero(self), NormalizedOrZero(other))

\* impl PartialOrd for SdkVersion.
partial_cmp(self, other) ==
   CmpTriple(NormalizedOrZero(self), NormalizedOrZero(other))

VersionLt(a, b) == partial_cmp(a, b) = "Less"
VersionGt(a, b) == partial_cmp(a, b) = "Greater"

(***************************************************************************)
(* ApplePlatform.                                                          *)
(***************************************************************************)
KnownPlatforms ==
   << [tag |-> "AppleTvOs", name |-> <<"A","p","p","l","e","T","V","O","S">>],
      [tag |-> "AppleTvSimulator",
       name |-> <<"A","p","p","l","e","T","V","S","i","m","u","l","a","t","o","r">>],
      [tag |-> "DriverKit", name |-> <<"D","r","i","v","e","r","K","i","t">>],
      [tag |-> "IPhoneOs", name |-> <<"i","P","h","o","n","e","O","S">>],
      [tag |-> "IPhoneSimulator",
       name |-> <<"i","P","h","o","n","e","S","i","m","u","l","a","t","o","r">>],
      [tag |-> "MacOsX", name |-> <<"M","a","c","O","S","X">>],
      [tag |-> "WatchOs", name |-> <<"W","a","t","c","h","O","S">>],
      [tag |-> "WatchSimulator",
       name |-> <<"W","a","t","c","h","S","i","m","u","l","a","t","o","r">>] >>

Unknown(v) == [tag |-> "Unknown", name |-> v]

\* impl FromStr for ApplePlatform; never fails.
ApplePlatform_from_str(s) ==
   IF \E i \in 1..Len(KnownPlatforms) : KnownPlatforms[i].name = s
   THEN [tag |-> (CHOOSE k \in {KnownPlatforms[i] : i \in 1..Len(KnownPlatforms)} :
                     k.name = s).tag]
   ELSE Unknown(s)

filesystem_name(p) ==
   IF p.tag = "Unknown" THEN p.name
   ELSE (CHOOSE k \in {KnownPlatforms[i] : i \in 1..Len(KnownPlatforms)} :
            k.tag = p.tag).name

\* An equality of the enum values themselves.
PlatformSame(p, q) == p = q

\* impl PartialEq for ApplePlatform.
PlatformEq(p, q) == filesystem_name(p) = filesystem_name(q)

(***************************************************************************)
(* Paths.                                                                  *)
(***************************************************************************)
\* to_str() of a path component: the characters of each name of the model.
Chars(name) ==
   CASE
      name = "Applications" -> <<"A","p","p","l","i","c","a","t","i","o","n","s">>
   [] name = "Contents" -> <<"C","o","n","t","e","n","t","s">>
   [] name = "Developer" -> <<"D","e","v","e","l","o","p","e","r">>
   [] name = "Library" -> <<"L","i","b","r","a","r","y">>
   [] name = "CommandLineTools" -> <<"C","o","m","m","a","n","d","L","i","n","e","T","o","o","l","s">>
   [] name = "SDKs" -> <<"S","D","K","s">>
   [] name = "Platforms" -> <<"P","l","a","t","f","o","r","m","s">>
   [] name = "Xcode.app" -> <<"X","c","o","d","e",".","a","p","p">>
   [] name = "Xcode-beta.app" -> <<"X","c","o","d","e","-","b","e","t","a",".","a","p","p">>
   [] name = "Safari.app" -> <<"S","a","f","a","r","i",".","a","p","p">>
   [] name = "MacOSX.platform" -> <<"M","a","c","O","S","X",".","p","l","a","t","f","o","r","m">>
   [] name = "iPhoneOS.platform" -> <<"i","P","h","o","n","e","O","S",".","p","l","a","t","f","o","r","m">>
   [] name = "Info.plist" -> <<"I","n","f","o",".","p","l","i","s","t">>
   [] name = "MacOSX12.3.sdk" -> <<"M","a","c","O","S","X","1","2",".","3",".","s","d","k">>
   [] name = "MacOSX.sdk" -> <<"M","a","c","O","S","X",".","s","d","k">>
   [] name = "iPhoneOS9.0.sdk" -> <<"i","P","h","o","n","e","O","S","9",".","0",".","s","d","k">>
   [] name = "MacOSX13.0.sdk" -> <<"M","a","c","O","S","X","1","3",".","0",".","s","d","k">>
   [] name = "DriverKit22.1.sdk" -> <<"D","r","i","v","e","r","K","i","t","2","2",".","1",".","s","d","k">>
   [] name = "MacOSX1.2.3.4.sdk" -> <<"M","a","c","O","S","X","1",".","2",".","3",".","4",".","s","d","k">>
   [] name = "README" -> <<"R","E","A","D","M","E">>
   [] name = "AppleTVOS.platform" -> <<"A","p","p","l","e","T","V","O","S",".","p","l","a","t","f","o","r","m">>
   [] name = "AppleTVSimulator.platform" -> <<"A","p","p","l","e","T","V","S","i","m","u","l","a","t","o","r",".","p","l","a","t","f","o","r","m">>
   [] name = "DriverKit.platform" -> <<"D","r","i","v","e","r","K","i","t",".","p","l","a","t","f","o","r","m">>
   [] name = "iPhoneSimulator.platform" -> <<"i","P","h","o","n","e","S","i","m","u","l","a","t","o","r",".","p","l","a","t","f","o","r","m">>
   [] name = "WatchOS.platform" -> <<"W","a","t","c","h","O","S",".","p","l","a","t","f","o","r","m">>
   [] name = "WatchSimulator.platform" -> <<"W","a","t","c","h","S","i","m","u","l","a","t","o","r",".","p","l","a","t","f","o","r","m">>
   [] name = "Foo.platform" -> <<"F","o","o",".","p","l","a","t","f","o","r","m">>
   [] name = ".platform" -> <<".","p","l","a","t","f","o","r","m">>
   [] name = "MacOSX" -> <<"M","a","c","O","S","X">>
   [] name = "platform" -> <<"p","l","a","t","f","o","r","m">>
   [] name = "MacOSX.platforms" -> <<"M","a","c","O","S","X",".","p","l","a","t","f","o","r","m","s">>
   [] name = "MacOSX.Platform" -> <<"M","a","c","O","S","X",".","P","l","a","t","f","o","r","m">>
   [] name = "MacOSX." -> <<"M","a","c","O","S","X",".">>
   [] name = "Mac.OSX.platform" -> <<"M","a","c",".","O","S","X",".","p","l","a","t","f","o","r","m">>
   [] name = "MacOSX.platform.bak" -> <<"M","a","c","O","S","X",".","p","l","a","t","f","o","r","m",".","b","a","k">>
   [] name = "XcodeBeta.app" -> <<"X","c","o","d","e","B","e","t","a",".","a","p","p">>
   [] name = "Xcode-rc1.app" -> <<"X","c","o","d","e","-","r","c","1",".","a","p","p">>
   [] name = "Xcode.txt" -> <<"X","c","o","d","e",".","t","x","t">>
   [] name = "MyXcode.app" -> <<"M","y","X","c","o","d","e",".","a","p","p">>
   [] name = "foo" -> <<"f","o","o">>
   [] name = "foo.bar" -> <<"f","o","o",".","b","a","r">>
   [] name = "MacOSX12.3.sdk.bak" -> <<"M","a","c","O","S","X","1","2",".","3",".","s","d","k",".","b","a","k">>
   [] name = "Caf(e-acute).platform" -> <<"C","a","f",EAcute,".","p","l","a","t","f","o","r","m">>
   [] name = "(e-acute)a1.sdk" -> <<EAcute,"a","1",".","s","d","k">>
   [] name = "Caf(e-acute)12.sdk" -> <<"C","a","f",EAcute,"1","2",".","s","d","k">>
   [] name = "m(superscript-2)1.sdk" -> <<"m",SuperTwo,"1",".","s","d","k">>
   [] name = "Developer(space)" -> <<"D","e","v","e","l","o","p","e","r"," ">>
   [] name = "Developer(line-feed)" -> <<"D","e","v","e","l","o","p","e","r",LineFeed>>
   [] name = "(space)" -> <<" ">>
   [] name = "Foo" -> <<"F","o","o">>
   [] name = "(byte 0xFF)" -> <<InvalidByte>>
   [] name = "(U+FFFD)" -> <<Replacement>>

\* Path::join.
Join(path, name) == Append(path, name)

\* The string of an absolute path: each component behind a separator.
RECURSIVE PathChars(_)
PathChars(path) ==
   IF Len(path) = 0 THEN <<>> ELSE <<"/">> \o Chars(Head(path)) \o PathChars(Tail(path))

\* The component names a path string of the model can hold.
PathNames ==
   {"Applications", "Xcode.app", "Xcode-beta.app", "Contents", "Developer",
    "Developer(space)", "Developer(line-feed)", "(space)", "(byte 0xFF)", "(U+FFFD)",
    "Platforms", "MacOSX.platform", "iPhoneOS.platform", "AppleTVOS.platform",
    "Foo.platform", "Caf(e-acute).platform", "Mac.OSX.platform", "MacOSX", "Foo"}

\* The names of the parts of a split path string; empty parts are no components.
RECURSIVE Components(_)
Components(parts) ==
   IF Len(parts) = 0 THEN <<>>
   ELSE IF Len(Head(parts)) = 0 THEN Components(Tail(parts))
   ELSE LET named == {name \in PathNames : Chars(name) = Head(parts)}
        IN <<IF named = {} THEN "(unnamed)" ELSE CHOOSE name \in named : TRUE>>
              \o Components(Tail(parts))

\* PathBuf::from(string): the path's components are what stands between the
\* separators.
PathBuf_from(s) == Components(Split(s, "/"))

\* Path::file_name. Every path of the model ends in a normal component.
file_name(path) == IF Len(path) = 0 THEN None ELSE Some(path[Len(path)])

\* Ord for Path: component by component, each component by its bytes.
RECURSIVE CmpPath(_, _)
CmpPath(a, b) ==
   IF Len(a) = 0 /\ Len(b) = 0 THEN "Equal"
   ELSE IF Len(a) = 0 THEN "Less"
   ELSE IF Len(b) = 0 THEN "Greater"
   ELSE LET c == CmpStr(Chars(Head(a)), Chars(Head(b)))
        IN IF c # "Equal" THEN c ELSE CmpPath(Tail(a), Tail(b))

COMMAND_LINE_TOOLS_DEFAULT_PATH == <<"Library", "Developer", "CommandLineTools">>
XCODE_APP_DEFAULT_PATH == <<"Applications", "Xcode.app">>
XCODE_APP_RELATIVE_PATH_DEVELOPER == <<"Contents", "Developer">>
APPLICATIONS_DIR == <<"Applications">>

\* slice::sort / sort_by: a stable insertion sort under a comparison.
InsertBy(sorted, x, cmp(_, _)) ==
   LET k == IF \E i \in 1..Len(sorted) : cmp(x, sorted[i]) = "Less"
            THEN CHOOSE i \in 1..Len(sorted) :
                    /\ cmp(x, sorted[i]) = "Less"
                    /\ \A j \in 1..(i - 1) : cmp(x, sorted[j]) # "Less"
            ELSE Len(sorted) + 1
   IN SubSeq(sorted, 1, k - 1) \o <<x>> \o SubSeq(sorted, k, Len(sorted))

\* The listings of a finite set: every order in which its members can come.
Listings(S) ==
   {l \in [1..Cardinality(S) -> S] : \A i, j \in 1..Cardinality(S) : l[i] = l[j] => i = j}

(***************************************************************************)
(* Path models.                                                            *)
(***************************************************************************)
\* ApplePlatform::from_platform_path.
from_platform_path(p) ==
   LET f == file_name(p)
   IN IF ~f.some THEN Err("PathNotPlatform")
      ELSE LET parts == split_once(Chars(f.v), ".")
           IN IF ~parts.some THEN Err("PathNotPlatform")
              ELSE IF parts.v[2] = <<"p","l","a","t","f","o","r","m">>
              THEN Ok(ApplePlatform_from_str(parts.v[1]))
              ELSE Err("PathNotPlatform")

\* A directory name without its extension.
directory_name_bare(platform) == filesystem_name(platform)

\* ApplePlatform::directory_name.
directory_name(platform) == filesystem_name(platform) \o <<".","p","l","a","t","f","o","r","m">>

\* ApplePlatform::path_in_developer_directory.
path_in_developer_directory(self, developer_directory) ==
   Join(developer_directory, "Platforms") \o Components(<<directory_name(self)>>)

\* ApplePlatformDirectory::from_path.
ApplePlatformDirectory_from_path(path) ==
   LET platform == from_platform_path(path)
   IN IF IsErr(platform) THEN platform
      ELSE Ok([path |-> path, platform |-> platform.val])

\* ApplePlatformDirectory::sdks_path.
sdks_path(self) == Join(Join(self.path, "Developer"), "SDKs")

\* The char index of the first numeric character of s (enumerate().find_map), or -1.
FirstNumeric(s) ==
   IF \E i \in 1..Len(s) : is_numeric(s[i])
   THEN (CHOOSE i \in 1..Len(s) :
            is_numeric(s[i]) /\ \A j \in 1..(i - 1) : ~is_numeric(s[j])) - 1
   ELSE -1

\* SdkPath::from_path on the characters of the final component. The index that
\* enumerate() counts in characters is handed to split_at as a byte offset.
SdkPath_parse(path, s) ==
   LET parts == rsplit_once(s, ".")
   IN IF ~parts.some THEN Err("PathNotSdk")
      ELSE IF parts.v[2] # <<"s","d","k">> THEN Err("PathNotSdk")
      ELSE LET prefix == parts.v[1]
               first_digit == FirstNumeric(prefix)
           IN IF first_digit >= 0
              THEN LET sp == split_at(prefix, first_digit)
                   IN IF sp.kind = "Panic" THEN sp
                      ELSE Ok([path |-> path,
                               platform |-> ApplePlatform_from_str(sp.val[1]),
                               version |-> Some(SdkVersion(sp.val[2]))])
              ELSE Ok([path |-> path,
                       platform |-> ApplePlatform_from_str(prefix),
                       version |-> None])

\* SdkPath::from_path.
SdkPath_from_path(path) ==
   LET f == file_name(path)
   IN IF ~f.some THEN Err("PathNotSdk") ELSE SdkPath_parse(path, Chars(f.v))

(***************************************************************************)
(* The operating system's answers.                                         *)
(***************************************************************************)
\* The directories of the modelled machine and the entries each holds while it
\* exists. Any of them may be missing or unreadable when it is listed.
XcodeDeveloperDir == XCODE_APP_DEFAULT_PATH \o XCODE_APP_RELATIVE_PATH_DEVELOPER
BetaDeveloperDir == <<"Applications", "Xcode-beta.app">> \o XCODE_APP_RELATIVE_PATH_DEVELOPER
CommandLineToolsSdks == Join(COMMAND_LINE_TOOLS_DEFAULT_PATH, "SDKs")
PlatformSdks(dev, platform_dir) ==
   Join(Join(Join(Join(dev, "Platforms"), platform_dir), "Developer"), "SDKs")

Entries(path) ==
   CASE path = APPLICATIONS_DIR -> {"Xcode.app", "Xcode-beta.app", "Safari.app"}
     [] path = XcodeDeveloperDir -> {"Platforms"}
     [] path = Join(XcodeDeveloperDir, "Platforms") ->
           {"MacOSX.platform", "iPhoneOS.platform", "Info.plist"}
     [] path = Join(BetaDeveloperDir, "Platforms") -> {"MacOSX.platform"}
     [] path = PlatformSdks(XcodeDeveloperDir, "MacOSX.platform") ->
           {"MacOSX12.3.sdk", "MacOSX.sdk"}
     [] path = PlatformSdks(XcodeDeveloperDir, "iPhoneOS.platform") ->
           {"iPhoneOS9.0.sdk", "README"}
     [] path = PlatformSdks(BetaDeveloperDir, "MacOSX.platform") ->
           {"MacOSX13.0.sdk", "DriverKit22.1.sdk"}
     [] path = CommandLineToolsSdks -> {"MacOSX12.3.sdk", "MacOSX1.2.3.4.sdk"}
     [] OTHER -> {}

\* What std::fs::read_dir(path) plus the iteration of its entries can yield: the
\* directory is not found, another I/O error (permission denied), or the entries
\* in an order of the operating system's choosing.
ReadDirAnswers(path) ==
   {[kind |-> "NotFound"], [kind |-> "Denied"]}
      \cup {[kind |-> "Ok", entries |-> l] : l \in Listings(Entries(path))}

\* Which entries' metadata cannot be read when an SDK is constructed from them.
BrokenAnswers(path) == {{}} \cup {{e} : e \in Entries(path)}

\* Whether a string of bytes is valid UTF-8.
is_utf8(s) == \A i \in 1..Len(s) : s[i] # InvalidByte

\* String::from_utf8_lossy: every invalid byte becomes U+FFFD.
from_utf8_lossy(s) == [i \in 1..Len(s) |-> IF s[i] = InvalidByte THEN Replacement ELSE s[i]]

\* std::env::var("DEVELOPER_DIR"): Ok(value) is Some(value); the variable may be
\* absent or hold a value that is not valid Unicode, and both are an Err.
env_var(os) == IF os.present /\ is_utf8(os.value) THEN Some(os.value) ELSE None

EnvAnswers ==
   {env_var([present |-> FALSE, value |-> <<>>]),
    env_var([present |-> TRUE, value |-> PathChars(BetaDeveloperDir)])}

\* Running xcode-select --print-path: it cannot be started, or it exits with a
\* status and its standard output (the path and a line end).
XcodeSelectAnswers ==
   {[kind |-> "SpawnError"],
    [kind |-> "Exit", success |-> FALSE, stdout |-> <<>>],
    [kind |-> "Exit", success |-> TRUE,
     stdout |-> PathChars(XcodeDeveloperDir) \o <<LineFeed>>]}

\* str::trim: the string without its leading and trailing whitespace.
RECURSIVE trim(_)
trim(s) ==
   IF Len(s) = 0 THEN s
   ELSE IF is_whitespace(s[1]) THEN trim(Tail(s))
   ELSE IF is_whitespace(s[Len(s)]) THEN trim(SubSeq(s, 1, Len(s) - 1))
   ELSE s

(***************************************************************************)
(* Enumeration.                                                            *)
(***************************************************************************)
\* The platform directories left in the order the listing gave them.
KeepListingOrder(v) == v

CmpPlatformDir(a, b) == CmpPath(a.path, b.path)

RECURSIVE SortPlatformDirs(_)
SortPlatformDirs(v) ==
   IF Len(v) = 0 THEN <<>>
   ELSE InsertBy(SortPlatformDirs(SubSeq(v, 1, Len(v) - 1)), v[Len(v)], CmpPlatformDir)

\* The entries of a listing that parse as platform directories, in listing order.
RECURSIVE PlatformDirsOf(_, _)
PlatformDirsOf(platforms_path, entries) ==
   IF Len(entries) = 0 THEN <<>>
   ELSE LET d == ApplePlatformDirectory_from_path(Join(platforms_path, Head(entries)))
            rest == PlatformDirsOf(platforms_path, Tail(entries))
        IN IF IsOk(d) THEN <<d.val>> \o rest ELSE rest

\* find_in_developer_directory treating every I/O error as an empty directory.
find_in_developer_directory_lenient(developer_dir, answer) ==
   IF answer.kind \in {"NotFound", "Denied"} THEN Ok(<<>>)
   ELSE Ok(SortPlatformDirs(PlatformDirsOf(Join(developer_dir, "Platforms"), answer.entries)))

\* ApplePlatformDirectory::find_in_developer_directory, given read_dir's answer.
find_in_developer_directory(developer_dir, answer) ==
   LET platforms_path == Join(developer_dir, "Platforms")
   IN IF answer.kind = "NotFound" THEN Ok(<<>>)
      ELSE IF answer.kind = "Denied" THEN Err("Io")
      ELSE Ok(SortPlatformDirs(PlatformDirsOf(platforms_path, answer.entries)))

\* AppleSdk::from_directory of the path-derived SDK type: the SDK's facts come
\* from its path, then its metadata is read.
from_directory(path, broken) ==
   LET sdk == SdkPath_from_path(path)
   IN IF sdk.kind # "Ok" THEN sdk
      ELSE IF path[Len(path)] \in broken THEN Err("Io")
      ELSE sdk

\* A loop that skips a child whatever its error.
RECURSIVE CollectSdks_lenient(_, _, _, _)
CollectSdks_lenient(root, entries, broken, acc) ==
   IF Len(entries) = 0 THEN Ok(acc)
   ELSE LET r == from_directory(Join(root, Head(entries)), broken)
        IN IF r.kind = "Ok"
           THEN CollectSdks_lenient(root, Tail(entries), broken, Append(acc, r.val))
           ELSE CollectSdks_lenient(root, Tail(entries), broken, acc)

\* The loop of find_sdks_in_directory over the entries: the SDKs so far, or the
\* first error that is not PathNotSdk.
RECURSIVE CollectSdks(_, _, _, _)
CollectSdks(root, entries, broken, acc) ==
   IF Len(entries) = 0 THEN Ok(acc)
   ELSE LET r == from_directory(Join(root, Head(entries)), broken)
        IN IF r.kind = "Ok" THEN CollectSdks(root, Tail(entries), broken, Append(acc, r.val))
           ELSE IF r.kind = "Err" /\ r.err = "PathNotSdk"
           THEN CollectSdks(root, Tail(entries), broken, acc)
           ELSE r

\* find_sdks_in_directory treating a missing directory as any other I/O error.
find_sdks_in_directory_strict(root, answer, broken) ==
   IF answer.kind \in {"NotFound", "Denied"} THEN Err("Io")
   ELSE CollectSdks(root, answer.entries, broken, <<>>)

\* AppleSdk::find_sdks_in_directory, given read_dir's answer.
find_sdks_in_directory(root, answer, broken) ==
   IF answer.kind = "NotFound" THEN Ok(<<>>)
   ELSE IF answer.kind = "Denied" THEN Err("Io")
   ELSE CollectSdks(root, answer.entries, broken, <<>>)

\* A chaining that leaves out a platform directory whose SDKs cannot be listed.
RECURSIVE CollectDeveloperSdks_lenient(_, _)
CollectDeveloperSdks_lenient(dirs, sdks_in) ==
   IF Len(dirs) = 0 THEN Ok(<<>>)
   ELSE LET sdks == sdks_in[sdks_path(Head(dirs))]
            rest == CollectDeveloperSdks_lenient(Tail(dirs), sdks_in)
        IN IF IsErr(sdks) THEN rest ELSE Ok(sdks.val \o rest.val)

\* The map, collect and flatten of find_developer_sdks: the SDKs of each platform
\* directory in turn, or the first error. sdks_in[dir] is what
\* find_sdks_in_directory returns for the directory dir.
RECURSIVE CollectDeveloperSdks(_, _)
CollectDeveloperSdks(dirs, sdks_in) ==
   IF Len(dirs) = 0 THEN Ok(<<>>)
   ELSE LET sdks == sdks_in[sdks_path(Head(dirs))]
        IN IF IsErr(sdks) THEN sdks
           ELSE LET rest == CollectDeveloperSdks(Tail(dirs), sdks_in)
                IN IF IsErr(rest) THEN rest ELSE Ok(sdks.val \o rest.val)

\* AppleSdk::find_developer_sdks, given read_dir's answer for Platforms.
find_developer_sdks(developer_dir, answer, sdks_in) ==
   LET dirs == find_in_developer_directory(developer_dir, answer)
   IN IF IsErr(dirs) THEN dirs ELSE CollectDeveloperSdks(dirs.val, sdks_in)

(***************************************************************************)
(* Root locators.                                                          *)
(***************************************************************************)
\* default_developer_directory, given the environment's and the helper's answers.
default_developer_directory(env, helper) ==
   IF env.some THEN Ok(PathBuf_from(env.v))
   ELSE IF helper.kind = "SpawnError" THEN Err("XcodeSelectRun")
   ELSE IF helper.success THEN Ok(PathBuf_from(trim(from_utf8_lossy(helper.stdout))))
   ELSE Err("XcodeSelectBadStatus")

\* How often default_developer_directory starts xcode-select.
xcode_select_runs(env) == IF env.some THEN 0 ELSE 1

\* default_xcode_developer_directory, given the answer of path.exists().
default_xcode_developer_directory(exists) ==
   IF exists THEN Some(XcodeDeveloperDir) ELSE None

\* command_line_tools_sdks_directory, given the answer of sdk_path.exists().
command_line_tools_sdks_directory(exists) ==
   IF exists THEN Some(CommandLineToolsSdks) ELSE None

starts_with(s, prefix) == Len(s) >= Len(prefix) /\ SubSeq(s, 1, Len(prefix)) = prefix
ends_with(s, suffix) ==
   Len(s) >= Len(suffix) /\ SubSeq(s, Len(s) - Len(suffix) + 1, Len(s)) = suffix

\* A comparison by path alone.
CmpXcodeApp_plain(a, b) == CmpPath(a, b)

\* The comparison find_xcode_apps sorts by.
CmpXcodeApp(a, b) ==
   IF a[Len(a)] = "Xcode.app" THEN "Less"
   ELSE IF b[Len(b)] = "Xcode.app" THEN "Greater"
   ELSE CmpPath(a, b)

RECURSIVE SortXcodeApps(_)
SortXcodeApps(v) ==
   IF Len(v) = 0 THEN <<>>
   ELSE InsertBy(SortXcodeApps(SubSeq(v, 1, Len(v) - 1)), v[Len(v)], CmpXcodeApp)

RECURSIVE XcodeAppsOf(_, _)
XcodeAppsOf(applications_dir, entries) ==
   IF Len(entries) = 0 THEN <<>>
   ELSE LET name == Chars(Head(entries))
            rest == XcodeAppsOf(applications_dir, Tail(entries))
        IN IF starts_with(name, <<"X","c","o","d","e">>)
              /\ ends_with(name, <<".","a","p","p">>)
           THEN <<Join(applications_dir, Head(entries))>> \o rest
           ELSE rest

\* find_xcode_apps, given read_dir's answer.
find_xcode_apps(applications_dir, answer) ==
   IF answer.kind = "NotFound" THEN Ok(<<>>)
   ELSE IF answer.kind = "Denied" THEN Err("Io")
   ELSE Ok(SortXcodeApps(XcodeAppsOf(applications_dir, answer.entries)))

\* The filter_map of find_system_xcode_developer_directories: the Developer
\* directories that exist (present: the paths exists() answers true for).
RECURSIVE ExistingDeveloperDirs(_, _)
ExistingDeveloperDirs(apps, present) ==
   IF Len(apps) = 0 THEN <<>>
   ELSE LET developer_path == Head(apps) \o XCODE_APP_RELATIVE_PATH_DEVELOPER
            rest == ExistingDeveloperDirs(Tail(apps), present)
        IN IF developer_path \in present THEN <<developer_path>> \o rest ELSE rest

\* find_system_xcode_developer_directories.
find_system_xcode_developer_directories(answer, present) ==
   LET apps == find_xcode_apps(APPLICATIONS_DIR, answer)
   IN IF IsErr(apps) THEN apps ELSE Ok(ExistingDeveloperDirs(apps.val, present))

\* The Developer directories exists() may be asked about.
SystemDeveloperDirs == {XcodeDeveloperDir, BetaDeveloperDir}

(***************************************************************************)
(* SdkSearch.                                                              *)
(***************************************************************************)
\* A SearchDirectory; step records which step of search() made it.
Developer(p, step) == [kind |-> "Developer", path |-> p, step |-> step]
Sdks(p, step) == [kind |-> "Sdks", path |-> p, step |-> step]

\* An equality of path and kind together.
SearchDirectoryEq_kind(a, b) == a.path = b.path /\ a.kind = b.kind

\* impl PartialEq for SearchDirectory: the paths are compared, the kind is not.
SearchDirectoryEq(a, b) == a.path = b.path

\* The platform directories a wanted platform keeps.
RECURSIVE FilterPlatformDirs(_, _)
FilterPlatformDirs(dirs, platform) ==
   IF Len(dirs) = 0 THEN <<>>
   ELSE LET platform_dir == Head(dirs)
            rest == FilterPlatformDirs(Tail(dirs), platform)
        IN IF platform.some
           THEN IF PlatformEq(platform_dir.platform, platform.v)
                THEN <<sdks_path(platform_dir)>> \o rest
                ELSE rest
           ELSE <<sdks_path(platform_dir)>> \o rest

\* resolve_sdks_dirs paying no attention to the wanted platform.
resolve_sdks_dirs_all(self, platform, answer) ==
   IF self.kind = "Developer"
   THEN LET dirs == find_in_developer_directory(self.path, answer)
        IN IF IsErr(dirs) THEN dirs ELSE Ok(FilterPlatformDirs(dirs.val, None))
   ELSE Ok(<<self.path>>)

\* SearchDirectory::resolve_sdks_dirs, given read_dir's answer for Platforms.
resolve_sdks_dirs(self, platform, answer) ==
   IF self.kind = "Developer"
   THEN LET dirs == find_in_developer_directory(self.path, answer)
        IN IF IsErr(dirs) THEN dirs ELSE Ok(FilterPlatformDirs(dirs.val, platform))
   ELSE Ok(<<self.path>>)

\* filter_sdk letting an SDK without a version pass a bound.
filter_sdk_unversioned(self, sdk) ==
   /\ (self.minimum_version.some /\ sdk.version.some)
         => ~VersionLt(sdk.version.v, self.minimum_version.v)
   /\ (self.maximum_version.some /\ sdk.version.some)
         => ~VersionGt(sdk.version.v, self.maximum_version.v)

\* filter_sdk paying no attention to the maximum version.
filter_sdk_minimum_only(self, sdk) ==
   self.minimum_version.some
      => sdk.version.some /\ ~VersionLt(sdk.version.v, self.minimum_version.v)

\* filter_sdk keeping nothing when a bound does not parse.
filter_sdk_strict(self, sdk) ==
   /\ self.minimum_version.some
         => /\ IsOk(normalized_version(self.minimum_version.v))
            /\ sdk.version.some
            /\ ~VersionLt(sdk.version.v, self.minimum_version.v)
   /\ self.maximum_version.some
         => /\ IsOk(normalized_version(self.maximum_version.v))
            /\ sdk.version.some
            /\ ~VersionGt(sdk.version.v, self.maximum_version.v)

\* SdkSearch::filter_sdk.
filter_sdk(self, sdk) ==
   LET min_ok ==
          IF self.minimum_version.some
          THEN IF sdk.version.some
               THEN ~VersionLt(sdk.version.v, self.minimum_version.v)
               ELSE FALSE
          ELSE TRUE
       max_ok ==
          IF self.maximum_version.some
          THEN IF sdk.version.some
               THEN ~VersionGt(sdk.version.v, self.maximum_version.v)
               ELSE FALSE
          ELSE TRUE
   IN min_ok /\ max_ok

\* SelectSeq(sdks, filter_sdk): the loop that pushes the SDKs the filter keeps.
RECURSIVE KeepSdks(_, _)
KeepSdks(self, sdks) ==
   IF Len(sdks) = 0 THEN <<>>
   ELSE IF filter_sdk(self, Head(sdks))
        THEN <<Head(sdks)>> \o KeepSdks(self, Tail(sdks))
        ELSE KeepSdks(self, Tail(sdks))

\* impl Default for SdkSearch.
SdkSearch_default ==
   [search_developer_dir |-> TRUE,
    search_command_line_tools_sdks |-> FALSE,
    search_default_system_xcode |-> FALSE,
    search_system_xcodes |-> FALSE,
    search_additional_developer_dirs |-> <<>>,
    search_additional_sdks_dirs |-> <<>>,
    platform |-> None,
    minimum_version |-> None,
    maximum_version |-> None]

\* The values the builder calls of the model are given.
DeveloperDirChoices == {XcodeDeveloperDir, BetaDeveloperDir}
SdksDirChoices ==
   {CommandLineToolsSdks, PlatformSdks(XcodeDeveloperDir, "MacOSX.platform"), XcodeDeveloperDir}
PlatformChoices == {[tag |-> "MacOsX"], [tag |-> "IPhoneOs"]}
VersionChoices == {SdkVersion(<<"1","2",".","3">>), SdkVersion(<<"f","o","o">>)}

\* append_dir putting a new entry first instead of last.
append_dir_front(dirs, v) ==
   IF \E i \in 1..Len(dirs) : SearchDirectoryEq(dirs[i], v) THEN dirs ELSE <<v>> \o dirs

\* The append_dir closure of search: push unless an equal entry is there.
append_dir(dirs, v) ==
   IF \E i \in 1..Len(dirs) : SearchDirectoryEq(dirs[i], v) THEN dirs ELSE Append(dirs, v)

\* for path in paths { append_dir(SearchDirectory::Developer(path)) }
RECURSIVE AppendDeveloperDirs(_, _, _)
AppendDeveloperDirs(dirs, paths, step) ==
   IF Len(paths) = 0 THEN dirs
   ELSE AppendDeveloperDirs(append_dir(dirs, Developer(Head(paths), step)), Tail(paths), step)

\* for path in paths { append_dir(SearchDirectory::Sdks(path)) }
RECURSIVE AppendSdksDirs(_, _, _)
AppendSdksDirs(dirs, paths, step) ==
   IF Len(paths) = 0 THEN dirs
   ELSE AppendSdksDirs(append_dir(dirs, Sdks(Head(paths), step)), Tail(paths), step)

\* A searched_dirs that remembers nothing.
contains_never(searched, sdk_dir) == FALSE

\* searched_dirs.contains(&sdk_dir)
contains(searched, sdk_dir) == sdk_dir \in searched

(***************************************************************************)
(* The state machine: a chain of builder calls, then one search.           *)
(***************************************************************************)
VARIABLES
   pc,             \* where the caller or search() stands
   calls,          \* builder calls made so far
   self,           \* the SdkSearch
   search_dirs,    \* search(): the roots collected
   located,        \* what each root locator returned to search()
   root,           \* search(): how many roots the outer loop has taken
   pending,        \* search(): the SDKs directories of the current root still to visit
   searched_dirs,  \* search(): the SDKs directories already enumerated
   res,            \* search(): the SDKs kept so far
   found,          \* for each kept SDK, the index of the root it was found under
   seen,           \* every SDK an enumeration returned, kept or not
   reads,          \* the expansions and enumerations made, with read_dir's answers
   result,         \* what search() returned
   applied         \* a function called on its own: its name, arguments and return

vars ==
   <<pc, calls, self, search_dirs, located, root, pending, searched_dirs,
     res, found, seen, reads, result, applied>>

NotCalled == [called |-> FALSE]
Returned(x) == [called |-> TRUE, ret |-> x]
NotReturned == [kind |-> "Running"]

\* An entry of reads: whether a root was expanded ("resolve") or an SDKs
\* directory enumerated ("enumerate"), the directory, read_dir's answer
\* ("Skipped" when the directory was not read again), and what the call returned.
Read(op, path, kind, r) ==
   [op |-> op, path |-> path, kind |-> kind, ret |-> r.kind,
    n |-> IF r.kind = "Ok" THEN Len(r.val) ELSE 0,
    val |-> IF r.kind = "Ok" THEN r.val ELSE <<>>]

\* The state of a search before its first builder call.
SearchInit ==
   /\ pc = "build"
   /\ calls = 0
   /\ self = SdkSearch_default
   /\ search_dirs = <<>>
   /\ located = [developer_dir |-> NotCalled, command_line_tools |-> NotCalled,
                 default_system_xcode |-> NotCalled, system_xcodes |-> NotCalled]
   /\ root = 0
   /\ pending = <<>>
   /\ searched_dirs = {}
   /\ res = <<>>
   /\ found = <<>>
   /\ seen = <<>>
   /\ reads = <<>>
   /\ result = NotReturned

Init == SearchInit /\ applied = NotCalled

loop_locals == <<root, pending, searched_dirs, res, found, seen, reads, result>>

Build(next_self) ==
   /\ pc = "build"
   /\ calls < MaxCalls
   /\ calls' = calls + 1
   /\ self' = next_self
   /\ UNCHANGED <<pc, search_dirs, located, loop_locals>>
   /\ UNCHANGED applied

developer_dir == \E value \in BOOLEAN : Build([self EXCEPT !.search_developer_dir = value])

command_line_tools ==
   \E value \in BOOLEAN : Build([self EXCEPT !.search_command_line_tools_sdks = value])

default_system_xcode ==
   \E value \in BOOLEAN : Build([self EXCEPT !.search_default_system_xcode = value])

system_xcodes == \E value \in BOOLEAN : Build([self EXCEPT !.search_system_xcodes = value])

additional_developer_dir ==
   \E value \in DeveloperDirChoices :
      Build([self EXCEPT !.search_additional_developer_dirs = Append(@, value)])

additional_sdks_dir ==
   \E value \in SdksDirChoices :
      Build([self EXCEPT !.search_additional_sdks_dirs = Append(@, value)])

platform == \E p \in PlatformChoices : Build([self EXCEPT !.platform = Some(p)])

minimum_version ==
   \E version \in VersionChoices : Build([self EXCEPT !.minimum_version = Some(version)])

maximum_version ==
   \E version \in VersionChoices : Build([self EXCEPT !.maximum_version = Some(version)])

\* search() is called: the builder chain ends.
search ==
   /\ pc = "build"
   /\ pc' = "developer_dir"
   /\ UNCHANGED <<calls, self, search_dirs, located, loop_locals>>
   /\ UNCHANGED applied

\* The first step written with `?`: default_developer_directory()'s error returns.
SearchDeveloperDir_try ==
   /\ pc = "developer_dir"
   /\ IF self.search_developer_dir
      THEN \E env \in EnvAnswers, helper \in XcodeSelectAnswers :
              LET r == default_developer_directory(env, helper)
              IN /\ located' = [located EXCEPT !.developer_dir = Returned(r)]
                 /\ IF IsOk(r)
                    THEN /\ search_dirs' =
                               append_dir(search_dirs, Developer(r.val, "developer_dir"))
                         /\ pc' = "command_line_tools"
                         /\ UNCHANGED result
                    ELSE /\ pc' = "done"
                         /\ result' = r
                         /\ UNCHANGED search_dirs
      ELSE pc' = "command_line_tools" /\ UNCHANGED <<search_dirs, located, result>>
   /\ UNCHANGED <<calls, self, root, pending, searched_dirs, res, found, seen, reads>>
   /\ UNCHANGED applied

\* if self.search_developer_dir { if let Ok(path) = default_developer_directory() ... }
SearchDeveloperDir ==
   /\ pc = "developer_dir"
   /\ pc' = "command_line_tools"
   /\ IF self.search_developer_dir
      THEN \E env \in EnvAnswers, helper \in XcodeSelectAnswers :
              LET r == default_developer_directory(env, helper)
              IN /\ search_dirs' = IF IsOk(r)
                                   THEN append_dir(search_dirs, Developer(r.val, "developer_dir"))
                                   ELSE search_dirs
                 /\ located' = [located EXCEPT !.developer_dir = Returned(r)]
      ELSE UNCHANGED <<search_dirs, located>>
   /\ UNCHANGED <<calls, self, loop_locals>>
   /\ UNCHANGED applied

\* if self.search_command_line_tools_sdks { if let Some(path) = ... }
SearchCommandLineTools ==
   /\ pc = "command_line_tools"
   /\ pc' = "default_system_xcode"
   /\ IF self.search_command_line_tools_sdks
      THEN \E exists \in BOOLEAN :
              LET r == command_line_tools_sdks_directory(exists)
              IN /\ search_dirs' = IF r.some
                                   THEN append_dir(search_dirs, Sdks(r.v, "command_line_tools"))
                                   ELSE search_dirs
                 /\ located' = [located EXCEPT !.command_line_tools = Returned(r)]
      ELSE UNCHANGED <<search_dirs, located>>
   /\ UNCHANGED <<calls, self, loop_locals>>
   /\ UNCHANGED applied

\* if self.search_default_system_xcode { if let Some(path) = ... }
SearchDefaultSystemXcode ==
   /\ pc = "default_system_xcode"
   /\ pc' = "system_xcodes"
   /\ IF self.search_default_system_xcode
      THEN \E exists \in BOOLEAN :
              LET r == default_xcode_developer_directory(exists)
              IN /\ search_dirs' = IF r.some
                                   THEN append_dir(search_dirs,
                                                   Developer(r.v, "default_system_xcode"))
                                   ELSE search_dirs
                 /\ located' = [located EXCEPT !.default_system_xcode = Returned(r)]
      ELSE UNCHANGED <<search_dirs, located>>
   /\ UNCHANGED <<calls, self, loop_locals>>
   /\ UNCHANGED applied

\* The fourth step written with `?`: the error of listing the applications returns.
SearchSystemXcodes_try ==
   /\ pc = "system_xcodes"
   /\ IF self.search_system_xcodes
      THEN \E answer \in ReadDirAnswers(APPLICATIONS_DIR), present \in SUBSET SystemDeveloperDirs :
              LET r == find_system_xcode_developer_directories(answer, present)
              IN /\ located' = [located EXCEPT !.system_xcodes = Returned(r)]
                 /\ IF IsOk(r)
                    THEN /\ search_dirs' =
                               AppendDeveloperDirs(search_dirs, r.val, "system_xcodes")
                         /\ pc' = "additional"
                         /\ UNCHANGED result
                    ELSE /\ pc' = "done"
                         /\ result' = r
                         /\ UNCHANGED search_dirs
      ELSE pc' = "additional" /\ UNCHANGED <<search_dirs, located, result>>
   /\ UNCHANGED <<calls, self, root, pending, searched_dirs, res, found, seen, reads>>
   /\ UNCHANGED applied

\* if self.search_system_xcodes { if let Ok(paths) = ... { for path in paths ... } }
SearchSystemXcodes ==
   /\ pc = "system_xcodes"
   /\ pc' = "additional"
   /\ IF self.search_system_xcodes
      THEN \E answer \in ReadDirAnswers(APPLICATIONS_DIR), present \in SUBSET SystemDeveloperDirs :
              LET r == find_system_xcode_developer_directories(answer, present)
              IN /\ search_dirs' = IF IsOk(r)
                                   THEN AppendDeveloperDirs(search_dirs, r.val, "system_xcodes")
                                   ELSE search_dirs
                 /\ located' = [located EXCEPT !.system_xcodes = Returned(r)]
      ELSE UNCHANGED <<search_dirs, located>>
   /\ UNCHANGED <<calls, self, loop_locals>>
   /\ UNCHANGED applied

\* The two loops over the additional directories.
SearchAdditional ==
   /\ pc = "additional"
   /\ pc' = "loop"
   /\ search_dirs' =
         AppendSdksDirs(
            AppendDeveloperDirs(search_dirs, self.search_additional_developer_dirs,
                                "additional_developer_dir"),
            self.search_additional_sdks_dirs, "additional_sdks_dir")
   /\ UNCHANGED <<calls, self, located, loop_locals>>
   /\ UNCHANGED applied

\* The outer loop takes the next root: search_dir.resolve_sdks_dirs(&self.platform)?
ResolveRoot ==
   /\ pc = "loop"
   /\ Len(pending) = 0
   /\ root < Len(search_dirs)
   /\ root' = root + 1
   /\ LET search_dir == search_dirs[root + 1]
          platforms_path == Join(search_dir.path, "Platforms")
      IN IF search_dir.kind = "Developer"
         THEN \E answer \in ReadDirAnswers(platforms_path) :
                 LET r == resolve_sdks_dirs(search_dir, self.platform, answer)
                 IN /\ reads' = Append(reads, Read("resolve", platforms_path, answer.kind, r))
                    /\ IF IsOk(r)
                       THEN pending' = r.val /\ UNCHANGED <<pc, result>>
                       ELSE pending' = pending /\ pc' = "done" /\ result' = r
         ELSE /\ pending' = resolve_sdks_dirs(search_dir, self.platform, [kind |-> "NotAsked"]).val
              /\ UNCHANGED <<pc, result, reads>>
   /\ UNCHANGED <<calls, self, search_dirs, located, searched_dirs, res, found, seen>>
   /\ UNCHANGED applied

\* The inner loop meets a directory already in searched_dirs: continue.
SkipSearchedDir ==
   /\ pc = "loop"
   /\ Len(pending) > 0
   /\ contains(searched_dirs, Head(pending))
   /\ pending' = Tail(pending)
   /\ reads' = Append(reads, Read("enumerate", Head(pending), "Skipped", Ok(<<>>)))
   /\ UNCHANGED <<pc, calls, self, search_dirs, located, root, searched_dirs,
                  res, found, seen, result>>
   /\ UNCHANGED applied

\* The inner loop enumerates a directory: SDK::find_sdks_in_directory(&sdk_dir)?
\* and the push of every SDK filter_sdk keeps.
EnumerateSdksDir ==
   /\ pc = "loop"
   /\ Len(pending) > 0
   /\ ~contains(searched_dirs, Head(pending))
   /\ LET sdk_dir == Head(pending)
      IN \E answer \in ReadDirAnswers(sdk_dir), broken \in BrokenAnswers(sdk_dir) :
            LET r == find_sdks_in_directory(sdk_dir, answer, broken)
                kept == KeepSdks(self, r.val)
            IN /\ searched_dirs' = searched_dirs \cup {sdk_dir}
               /\ reads' = Append(reads, Read("enumerate", sdk_dir, answer.kind, r))
               /\ IF r.kind = "Ok"
                  THEN /\ res' = res \o kept
                       /\ found' = found \o [i \in 1..Len(kept) |-> root]
                       /\ seen' = seen \o r.val
                       /\ pending' = Tail(pending)
                       /\ UNCHANGED <<pc, result>>
                  ELSE /\ pc' = "done"
                       /\ result' = r
                       /\ UNCHANGED <<res, found, seen, pending>>
   /\ UNCHANGED <<calls, self, search_dirs, located, root>>
   /\ UNCHANGED applied

\* Ok(res)
Return ==
   /\ pc = "loop"
   /\ Len(pending) = 0
   /\ root = Len(search_dirs)
   /\ pc' = "done"
   /\ result' = Ok(res)
   /\ UNCHANGED <<calls, self, search_dirs, located, root, pending, searched_dirs,
                  res, found, seen, reads>>
   /\ UNCHANGED applied

Next ==
   \/ developer_dir
   \/ command_line_tools
   \/ default_system_xcode
   \/ system_xcodes
   \/ additional_developer_dir
   \/ additional_sdks_dir
   \/ platform
   \/ minimum_version
   \/ maximum_version
   \/ search
   \/ SearchDeveloperDir
   \/ SearchCommandLineTools
   \/ SearchDefaultSystemXcode
   \/ SearchSystemXcodes
   \/ SearchAdditional
   \/ ResolveRoot
   \/ SkipSearchedDir
   \/ EnumerateSdksDir
   \/ Return

Spec == Init /\ [][Next]_vars

(***************************************************************************)
(* A search and then a second one on the same machine: a clone of the      *)
(* SdkSearch, as it is or with one filter left unset, searches again.      *)
(***************************************************************************)
\* The second search, as a change of the first one's SdkSearch.
Variants == {"same", "no_minimum_version", "no_maximum_version", "no_platform"}

Variant(search_self, variant) ==
   CASE variant = "same" -> search_self
     [] variant = "no_minimum_version" -> [search_self EXCEPT !.minimum_version = None]
     [] variant = "no_maximum_version" -> [search_self EXCEPT !.maximum_version = None]
     [] variant = "no_platform" -> [search_self EXCEPT !.platform = None]

\* Two reads of one directory find the machine in the same state. A repeated
\* search may be given the entries in another order; a search run to compare
\* filters is given them in the same order.
SameDirectory(variant, first, second) ==
   (first.op = second.op /\ first.path = second.path
      /\ first.kind # "Skipped" /\ second.kind # "Skipped")
   => /\ first.kind = second.kind
      /\ first.op = "enumerate" =>
            /\ first.ret = second.ret
            /\ first.n = second.n
            /\ variant # "same" => first.val = second.val

\* What the second search has met so far is the machine the first search met.
SameMachine ==
   applied.called =>
      /\ \A locator \in DOMAIN located :
            located[locator].called => located[locator] = applied.os.located[locator]
      /\ \A i \in 1..Len(reads), j \in 1..Len(applied.os.reads) :
            SameDirectory(applied.variant, applied.os.reads[j], reads[i])

\* The caller keeps what the first search returned and searches again.
SearchAgain ==
   /\ pc = "done"
   /\ ~applied.called
   /\ \E variant \in Variants :
         /\ Variant(self, variant) = self => variant = "same"
         /\ self' = Variant(self, variant)
         /\ applied' = [called |-> TRUE, fn |-> "search", args |-> self, variant |-> variant,
                        ret |-> result, os |-> [located |-> located, reads |-> reads]]
   /\ pc' = "developer_dir"
   /\ search_dirs' = <<>>
   /\ located' = [developer_dir |-> NotCalled, command_line_tools |-> NotCalled,
                  default_system_xcode |-> NotCalled, system_xcodes |-> NotCalled]
   /\ root' = 0
   /\ pending' = <<>>
   /\ searched_dirs' = {}
   /\ res' = <<>>
   /\ found' = <<>>
   /\ seen' = <<>>
   /\ reads' = <<>>
   /\ result' = NotReturned
   /\ UNCHANGED calls

RepeatNext ==
   \/ developer_dir /\ calls < MaxRepeatedCalls
   \/ command_line_tools /\ calls < MaxRepeatedCalls
   \/ default_system_xcode /\ calls < MaxRepeatedCalls
   \/ system_xcodes /\ calls < MaxRepeatedCalls
   \/ additional_developer_dir /\ calls < MaxRepeatedCalls
   \/ additional_sdks_dir /\ calls < MaxRepeatedCalls
   \/ platform /\ calls < MaxRepeatedCalls
   \/ minimum_version /\ calls < MaxRepeatedCalls
   \/ maximum_version /\ calls < MaxRepeatedCalls
   \/ search
   \/ SearchDeveloperDir /\ SameMachine'
   \/ SearchCommandLineTools /\ SameMachine'
   \/ SearchDefaultSystemXcode /\ SameMachine'
   \/ SearchSystemXcodes /\ SameMachine'
   \/ SearchAdditional
   \/ ResolveRoot /\ SameMachine'
   \/ SkipSearchedDir
   \/ EnumerateSdksDir /\ SameMachine'
   \/ Return
   \/ SearchAgain

RepeatSpec == Init /\ [][RepeatNext]_vars

(***************************************************************************)
(* The functions of the library called on their own: the initial state     *)
(* draws a function and its arguments, the action calls it.                *)
(***************************************************************************)
\* Every string over an alphabet of at most n characters.
Strings(alphabet, n) == UNION {[1..k -> alphabet] : k \in 0..n}

\* Version strings: the ones of the tests and of the documentation, strings at
\* the edges of u8, and every short string over digits, the dot, a letter and a sign.
VersionExamples ==
   {<<"1", "2">>,
    <<"1", "1">>,
    <<"1", "3">>,
    <<"1", "2", ".", "3">>,
    <<"1", "2", ".", "3", ".", "1">>,
    <<"1", "2", ".", "3", ".", "1", ".", "2">>,
    <<"f", "o", "o">>,
    <<"1", "0", ".", "0">>,
    <<"0", ".", "0", ".", "0">>,
    <<"2", "5", "5", ".", "2", "5", "5", ".", "2", "5", "5">>,
    <<"0", ".", "2", "5", "6">>,
    <<"1", ".", "2", ".", "3", ".", "4">>,
    <<"0", "1", ".", "0", "0", "2">>,
    <<"+", "1", ".", "2">>,
    <<"1", ".", ".", "2">>,
    <<"-", "1">>,
    <<"1", ".", " ", "2">>,
    <<SuperTwo>>,
    <<"1", "2", ".", EAcute>>,
    <<"0", "0", "0", "0", "0", "0", "0", "2", "5", "5">>,
    <<"9", "9", "9">>}
VersionStrings ==
   Strings({"0", "2", "5", "6", ".", "a", "+"}, MaxVersionLen) \cup VersionExamples

\* The version strings compared with each other.
ComparedStrings ==
   Strings({"0", "1", ".", "a"}, MaxPairLen)
      \cup {<<"1", "2">>,
          <<"1", "1">>,
          <<"1", "3">>,
          <<"1", "2", ".", "3">>,
          <<"1", "2", ".", "3", ".", "1">>,
          <<"1", "2", ".", "3", ".", "1", ".", "2">>,
          <<"f", "o", "o">>,
          <<"b", "a", "r">>,
          <<"0", ".", "0", ".", "0">>,
          <<"2", "5", "5">>,
          <<"2", "5", "6">>,
          <<"+", "1">>}

\* Platforms: every known variant, and Unknown of every known name and of
\* names that are no variant's.
Platforms ==
   {[tag |-> KnownPlatforms[i].tag] : i \in 1..Len(KnownPlatforms)}
      \cup {Unknown(KnownPlatforms[i].name) : i \in 1..Len(KnownPlatforms)}
      \cup {Unknown(<<"F","o","o">>), Unknown(<<"m","a","c","o","s","x">>), Unknown(<<>>)}

\* Paths given to the platform parsers: in a Platforms directory or bare, the
\* empty path, and names with and without the .platform suffix.
PlatformNames ==
   {"MacOSX.platform", "iPhoneOS.platform", "AppleTVOS.platform", "AppleTVSimulator.platform",
    "DriverKit.platform", "iPhoneSimulator.platform", "WatchOS.platform", "WatchSimulator.platform",
    "Foo.platform", ".platform", "Caf(e-acute).platform", "MacOSX", "platform", "Info.plist",
    "MacOSX.platforms", "MacOSX.Platform", "MacOSX.", "Mac.OSX.platform", "MacOSX.platform.bak", "MacOSX.sdk"}
PlatformPaths ==
   {<<>>} \cup {<<name>> : name \in PlatformNames}
      \cup {Join(Join(XcodeDeveloperDir, "Platforms"), name) : name \in PlatformNames}

\* Paths given to SdkPath::from_path: names of the tests and of the machine,
\* names with characters outside ASCII, bare and in an SDKs directory.
SdkNames ==
   {"foo", "foo.bar", "MacOSX.sdk", "MacOSX12.3.sdk", "iPhoneOS9.0.sdk", "DriverKit22.1.sdk",
    "MacOSX1.2.3.4.sdk", "README", "MacOSX12.3.sdk.bak", "MacOSX.platform",
    "(e-acute)a1.sdk", "Caf(e-acute)12.sdk", "m(superscript-2)1.sdk"}
SdkPaths ==
   {<<>>} \cup {<<name>> : name \in SdkNames}
      \cup {Join(CommandLineToolsSdks, name) : name \in SdkNames}

\* Final segments given by their characters: every short name over a letter, a
\* digit, the dot and two characters outside ASCII, alone and before ".sdk".
SdkSegments ==
   LET names == Strings({"M", "1", ".", EAcute, SuperTwo}, MaxSdkNameLen)
   IN names \cup {name \o <<".", "s", "d", "k">> : name \in names}

\* What read_dir can answer for a directory holding some of the given entries.
AnswersOver(entries) ==
   {[kind |-> "NotFound"], [kind |-> "Denied"]}
      \cup {[kind |-> "Ok", entries |-> l] :
               l \in UNION {Listings(S) : S \in {S \in SUBSET entries : Cardinality(S) <= MaxEntries}}}

\* Entries of a Platforms directory, of an SDKs directory and of an
\* applications directory.
PlatformEntries ==
   {"iPhoneOS.platform", "MacOSX.platform", "AppleTVOS.platform", "Info.plist",
    "Mac.OSX.platform", "Foo.platform", "Caf(e-acute).platform"}
SdkEntries == {"MacOSX12.3.sdk", "MacOSX.sdk", "iPhoneOS9.0.sdk", "README", "foo.bar"}
AppEntries ==
   {"Xcode.app", "XcodeBeta.app", "Xcode-rc1.app", "Safari.app", "Xcode.txt", "MyXcode.app"}

\* What DEVELOPER_DIR can hold and what xcode-select can print.
DeveloperDirVariable ==
   {[present |-> FALSE, value |-> <<>>]}
      \cup {[present |-> TRUE, value |-> v] :
               v \in {<<>>, PathChars(BetaDeveloperDir),
                      PathChars(BetaDeveloperDir) \o <<" ">>,
                      PathChars(BetaDeveloperDir) \o <<LineFeed>>,
                      PathChars(<<"Applications", "(byte 0xFF)">>)}}
XcodeSelectOutputs ==
   {<<>>, <<LineFeed>>,
    PathChars(<<"(space)", "Developer">>) \o <<LineFeed>>,
    PathChars(<<"Applications", "(byte 0xFF)">>) \o <<LineFeed>>}
      \cup {lead \o PathChars(XcodeDeveloperDir) \o trail :
               lead \in {<<>>, <<" ">>}, trail \in {<<>>, <<LineFeed>>, <<" ", LineFeed>>}}
XcodeSelectRuns ==
   {[kind |-> "SpawnError"]}
      \cup [kind : {"Exit"}, success : BOOLEAN, stdout : XcodeSelectOutputs]

\* The variables of a search, which a function called on its own leaves alone.
search_vars ==
   <<pc, calls, self, search_dirs, located, root, pending, searched_dirs,
     res, found, seen, reads, result>>

\* A call not yet made, the sets of them, and the call once it returned.
Call(fn, args) == [called |-> FALSE, fn |-> fn, args |-> args]
CallsOf(fn, argsets) == {Call(fn, args) : args \in argsets}
Calling(fn) == applied.fn = fn /\ ~applied.called
Returns(value) ==
   /\ applied' = [called |-> TRUE, fn |-> applied.fn, args |-> applied.args, ret |-> value]
   /\ UNCHANGED search_vars

FunctionInit ==
   /\ SearchInit
   /\ \/ applied \in CallsOf("partial_cmp", ComparedStrings \X ComparedStrings)
      \/ applied \in CallsOf("eq", ComparedStrings \X ComparedStrings)
      \/ applied \in CallsOf("normalized_version", VersionStrings)
      \/ applied \in CallsOf("semantic_version", VersionStrings)
      \/ applied \in CallsOf("ApplePlatform::eq", Platforms \X Platforms)
      \/ applied \in CallsOf("ApplePlatform::from_str", Platforms)
      \/ applied \in CallsOf("from_platform_path", PlatformPaths)
      \/ applied \in CallsOf("ApplePlatformDirectory::from_path", PlatformPaths)
      \/ applied \in CallsOf("SdkPath::from_path", SdkPaths)
      \/ applied \in CallsOf("SdkPath::from_path of a segment", SdkSegments)
      \/ applied \in CallsOf("default_developer_directory",
                             [os : DeveloperDirVariable, helper : XcodeSelectRuns])
      \/ applied \in CallsOf("find_in_developer_directory",
                             [developer_dir : {XcodeDeveloperDir},
                              answer : AnswersOver(PlatformEntries)])
      \/ applied \in CallsOf("find_sdks_in_directory",
                             [root : {CommandLineToolsSdks},
                              answer : AnswersOver(SdkEntries),
                              broken : {{}} \cup {{e} : e \in SdkEntries}])
      \/ applied \in CallsOf("find_xcode_apps",
                             [applications_dir : {APPLICATIONS_DIR},
                              answer : AnswersOver(AppEntries)])

Call_partial_cmp ==
   /\ Calling("partial_cmp")
   /\ Returns(partial_cmp(SdkVersion(applied.args[1]), SdkVersion(applied.args[2])))

Call_eq ==
   /\ Calling("eq")
   /\ Returns(SdkVersion_eq(SdkVersion(applied.args[1]), SdkVersion(applied.args[2])))

Call_normalized_version ==
   /\ Calling("normalized_version")
   /\ Returns(normalized_version(SdkVersion(applied.args)))

Call_semantic_version ==
   /\ Calling("semantic_version")
   /\ Returns(semantic_version(SdkVersion(applied.args)))

Call_ApplePlatform_eq ==
   /\ Calling("ApplePlatform::eq")
   /\ Returns(PlatformEq(applied.args[1], applied.args[2]))

\* ApplePlatform::from_str(p.filesystem_name())
Call_ApplePlatform_from_str ==
   /\ Calling("ApplePlatform::from_str")
   /\ Returns(ApplePlatform_from_str(filesystem_name(applied.args)))

Call_from_platform_path ==
   /\ Calling("from_platform_path")
   /\ Returns(from_platform_path(applied.args))

Call_ApplePlatformDirectory_from_path ==
   /\ Calling("ApplePlatformDirectory::from_path")
   /\ Returns(ApplePlatformDirectory_from_path(applied.args))

Call_SdkPath_from_path ==
   /\ Calling("SdkPath::from_path")
   /\ Returns(SdkPath_from_path(applied.args))

\* SdkPath::from_path of a path of one segment, the segment given by its characters.
Call_SdkPath_from_segment ==
   /\ Calling("SdkPath::from_path of a segment")
   /\ Returns(SdkPath_parse(<<applied.args>>, applied.args))

Call_default_developer_directory ==
   /\ Calling("default_developer_directory")
   /\ LET env == env_var(applied.args.os)
      IN Returns([value |-> default_developer_directory(env, applied.args.helper),
                  runs |-> xcode_select_runs(env)])

Call_find_in_developer_directory ==
   /\ Calling("find_in_developer_directory")
   /\ Returns(find_in_developer_directory(applied.args.developer_dir, applied.args.answer))

Call_find_sdks_in_directory ==
   /\ Calling("find_sdks_in_directory")
   /\ Returns(find_sdks_in_directory(applied.args.root, applied.args.answer,
                                     applied.args.broken))

Call_find_xcode_apps ==
   /\ Calling("find_xcode_apps")
   /\ Returns(find_xcode_apps(applied.args.applications_dir, applied.args.answer))

FunctionNext ==
   \/ Call_partial_cmp
   \/ Call_eq
   \/ Call_normalized_version
   \/ Call_semantic_version
   \/ Call_ApplePlatform_eq
   \/ Call_ApplePlatform_from_str
   \/ Call_from_platform_path
   \/ Call_ApplePlatformDirectory_from_path
   \/ Call_SdkPath_from_path
   \/ Call_SdkPath_from_segment
   \/ Call_default_developer_directory
   \/ Call_find_in_developer_directory
   \/ Call_find_sdks_in_directory
   \/ Call_find_xcode_apps

FunctionSpec == FunctionInit /\ [][FunctionNext]_vars

(***************************************************************************)
(* Properties.                                                             *)
(***************************************************************************)
\* The steps of search() that collect roots, in the order the code runs them.
Steps ==
   <<"developer_dir", "command_line_tools", "default_system_xcode", "system_xcodes",
     "additional_developer_dir", "additional_sdks_dir">>

StepRank(step) == CHOOSE i \in 1..Len(Steps) : Steps[i] = step

\* The position at which path was first added to a list of additional directories.
FirstAdded(paths, path) ==
   CHOOSE i \in 1..Len(paths) : paths[i] = path /\ \A j \in 1..(i - 1) : paths[j] # path

Returned_Ok == pc = "done" /\ result.kind = "Ok"

Last(s) == s[Len(s)]
Parent(path) == SubSeq(path, 1, Len(path) - 1)
Malformed(version) == IsErr(normalized_version(version))
MalformedBound ==
   \/ self.minimum_version.some /\ Malformed(self.minimum_version.v)
   \/ self.maximum_version.some /\ Malformed(self.maximum_version.v)

\* C2: an SDKs directory is enumerated at most once in a search (a later
\* arrival at it is skipped), no root stands twice in the list of roots, and no
\* SDK appears twice in the result.
C2_EnumeratedOnce ==
   /\ \A i, j \in 1..Len(reads) :
         (i < j /\ reads[i].op = "enumerate" /\ reads[j].op = "enumerate"
                /\ reads[i].path = reads[j].path)
            => reads[j].kind = "Skipped"
   /\ \A i, j \in 1..Len(search_dirs) : i < j => search_dirs[i].path # search_dirs[j].path
   /\ \A i, j \in 1..Len(res) : i < j => res[i].path # res[j].path

\* The active developer directory was also added as an additional developer
\* directory, and one of its platforms' SDKs directories was added as an SDKs
\* directory and so reached a second time; the search returned its SDKs.
C2_Witness ==
   /\ Returned_Ok
   /\ located.developer_dir.called
   /\ located.developer_dir.ret = Ok(XcodeDeveloperDir)
   /\ self.search_additional_developer_dirs = <<XcodeDeveloperDir>>
   /\ \E i \in 1..Len(reads) :
         /\ reads[i].kind = "Skipped"
         /\ \E k \in 1..Len(result.val) : Parent(result.val[k].path) = reads[i].path

\* The rule the claim states for keeping an SDK.
C3_Kept(sdk) ==
   IF ~self.minimum_version.some /\ ~self.maximum_version.some THEN TRUE
   ELSE /\ sdk.version.some
        /\ self.minimum_version.some
              => partial_cmp(sdk.version.v, self.minimum_version.v) \in {"Greater", "Equal"}
        /\ self.maximum_version.some
              => partial_cmp(sdk.version.v, self.maximum_version.v) \in {"Less", "Equal"}

C5_OnlyThePlatform ==
   self.platform.some
      => \A i \in 1..Len(res) : PlatformEq(res[i].platform, self.platform.v)

\* The SDKs directories the claim gives a developer-directory root: those of the
\* platform directories in its Platforms directory that the filter admits.
C6_Expected(dir) ==
   {PlatformSdks(dir.path, e) :
      e \in {e \in Entries(Join(dir.path, "Platforms")) :
                IF self.platform.some
                THEN Chars(e) = directory_name(self.platform.v)
                ELSE IsOk(from_platform_path(<<e>>))}}

\* C6: when a root is expanded, a developer directory whose Platforms directory
\* was listed gives exactly the SDKs directories of the platform directories the
\* filter admits (all of them without a filter), each once; an SDKs-directory
\* root gives itself and nothing is listed; and every SDK kept under a
\* developer-directory root lies in one of those directories.
C6_RootExpansion ==
   /\ [][root' # root =>
           LET dir == search_dirs[root']
           IN IF dir.kind = "Sdks"
              THEN pending' = <<dir.path>> /\ reads' = reads
              ELSE Last(reads').kind = "Ok" =>
                      /\ {pending'[i] : i \in 1..Len(pending')} = C6_Expected(dir)
                      /\ Len(pending') = Cardinality(C6_Expected(dir))]_vars
   /\ [](\A i \in 1..Len(res) :
            search_dirs[found[i]].kind = "Developer"
               => Parent(res[i].path) \in C6_Expected(search_dirs[found[i]]))

\* A search with a platform set went through a developer directory holding two
\* platforms, expanded it to the one matching directory and returned SDKs of it,
\* and also went through an SDKs-directory root.
C6_Witness ==
   /\ Returned_Ok
   /\ self.platform.some
   /\ \E k \in 1..Len(search_dirs) :
         /\ search_dirs[k].kind = "Developer"
         /\ search_dirs[k].path = XcodeDeveloperDir
         /\ \E i \in 1..Len(reads) :
               /\ reads[i].op = "resolve"
               /\ reads[i].path = Join(XcodeDeveloperDir, "Platforms")
               /\ reads[i].kind = "Ok"
               /\ reads[i].n = 1
         /\ \E i \in 1..Len(result.val) : found[i] = k
   /\ \E k \in 1..Len(search_dirs) : search_dirs[k].kind = "Sdks"

\* C7: a directory that is not found when it is listed gives an empty list, not
\* an error, and a search in which no listing failed otherwise returns Ok with
\* the SDKs kept from the other directories.
C7_AbsenceIsEmpty ==
   /\ \A i \in 1..Len(reads) :
         reads[i].kind = "NotFound" => reads[i].ret = "Ok" /\ reads[i].n = 0
   /\ (pc = "done" /\ \A i \in 1..Len(reads) : reads[i].ret = "Ok") => result = Ok(res)
   /\ (pc = "done" /\ result.kind = "Err")
         => Len(reads) > 0 /\ Last(reads).kind # "NotFound"

\* The command-line-tools SDKs directory existed when the root was resolved and
\* was gone when it was listed, a developer directory had no Platforms
\* directory, and the search returned the SDKs of another root.
C7_Witness ==
   /\ Returned_Ok
   /\ located.command_line_tools.called
   /\ located.command_line_tools.ret = Some(CommandLineToolsSdks)
   /\ \E i \in 1..Len(reads) :
         /\ reads[i].op = "enumerate"
         /\ reads[i].path = CommandLineToolsSdks
         /\ reads[i].kind = "NotFound"
   /\ \E i \in 1..Len(reads) : reads[i].op = "resolve" /\ reads[i].kind = "NotFound"
   /\ Len(result.val) > 0

\* C8: an expansion or enumeration that meets an I/O error other than not-found
\* is the last thing the search does: it returns that error and no list, and
\* the directory is not read a second time.
C8_IoErrorAborts ==
   \A i \in 1..Len(reads) :
      (reads[i].kind = "Denied" \/ reads[i].ret = "Err")
         => /\ i = Len(reads)
            /\ reads[i].ret = "Err"
            /\ pc = "done"
            /\ result = Err("Io")
            /\ \A j \in 1..Len(reads) :
                  (j # i /\ reads[j].op = reads[i].op) => reads[j].path # reads[i].path

\* A search that had already kept SDKs and had roots left to visit was denied a
\* directory and returned the error.
C8_Witness ==
   /\ pc = "done"
   /\ result.kind = "Err"
   /\ Last(reads).kind = "Denied"
   /\ Len(res) > 0
   /\ root < Len(search_dirs)

LocatorFailed(r) == r.called /\ (IF "kind" \in DOMAIN r.ret THEN IsErr(r.ret) ELSE ~r.ret.some)
HasRoot(step) == \E k \in 1..Len(search_dirs) : search_dirs[k].step = step
HasPath(path) == \E k \in 1..Len(search_dirs) : search_dirs[k].path = path

\* C9: nothing fails while the roots are collected: a search that has read no
\* directory has returned no error; a locator that failed or found nothing
\* leaves no root; and the collection goes on to the end, so that every
\* additional directory stands among the roots when the loop begins.
C9_CollectionNeverAborts ==
   /\ pc \in {"build", "developer_dir", "command_line_tools", "default_system_xcode",
              "system_xcodes", "additional"} => result = NotReturned /\ reads = <<>>
   /\ reads = <<>> => result.kind # "Err"
   /\ LocatorFailed(located.developer_dir) => ~HasRoot("developer_dir")
   /\ LocatorFailed(located.command_line_tools) => ~HasRoot("command_line_tools")
   /\ LocatorFailed(located.default_system_xcode) => ~HasRoot("default_system_xcode")
   /\ LocatorFailed(located.system_xcodes) => ~HasRoot("system_xcodes")
   /\ pc \in {"loop", "done"} =>
         /\ \A k \in 1..Len(self.search_additional_developer_dirs) :
               HasPath(self.search_additional_developer_dirs[k])
         /\ \A k \in 1..Len(self.search_additional_sdks_dirs) :
               HasPath(self.search_additional_sdks_dirs[k])

\* xcode-select failed and the applications directory could not be listed; the
\* search went on to an additional directory and returned its SDKs.
C9_Witness ==
   /\ Returned_Ok
   /\ LocatorFailed(located.developer_dir)
   /\ LocatorFailed(located.system_xcodes)
   /\ Len(result.val) > 0

\* C10: search returns no locator's error. An error it returns is the I/O error
\* of the expansion or enumeration it made last, whatever the locators returned.
C10_OnlyLoopErrors ==
   (pc = "done" /\ result.kind = "Err")
      => /\ result.err = "Io"
         /\ Len(reads) > 0
         /\ Last(reads).ret = "Err"
         /\ Last(reads).kind \in {"Denied", "Ok"}

\* xcode-select exited with a failure, and the search ended with the I/O error of
\* a directory it listed afterwards.
C10_Witness ==
   /\ pc = "done"
   /\ located.developer_dir.called
   /\ located.developer_dir.ret = Err("XcodeSelectBadStatus")
   /\ result = Err("Io")

\* C10 as the specification states it: when the helper misbehaves, or the
\* applications directory cannot be listed, search returns that error.
C10_LocatorErrorReturned ==
   pc = "done" =>
      /\ (located.developer_dir.called /\ IsErr(located.developer_dir.ret))
            => result = located.developer_dir.ret
      /\ (located.system_xcodes.called /\ IsErr(located.system_xcodes.ret))
            => result = located.system_xcodes.ret

Called(fn) == applied.fn = fn /\ applied.called
Reverse(ordering) ==
   IF ordering = "Less" THEN "Greater" ELSE IF ordering = "Greater" THEN "Less" ELSE "Equal"
AtMost(ordering) == ordering \in {"Less", "Equal"}

\* C11: cmp(a, b) is the lexicographic comparison of the two (major, minor,
\* patch) triples, with (0,0,0) for a side that does not parse; it is a total
\* order up to equivalence (antisymmetric, transitive, reflexive); two strings
\* that do not parse compare Equal even when they differ, while == compares the
\* strings themselves.
C11_VersionOrdering ==
   /\ Called("partial_cmp") =>
         LET a == SdkVersion(applied.args[1])
             b == SdkVersion(applied.args[2])
             ta == IF Malformed(a) THEN <<0, 0, 0>> ELSE normalized_version(a).val
             tb == IF Malformed(b) THEN <<0, 0, 0>> ELSE normalized_version(b).val
         IN /\ applied.ret \in {"Less", "Equal", "Greater"}
            /\ applied.ret = "Less" <=>
                  \/ ta[1] < tb[1]
                  \/ ta[1] = tb[1] /\ ta[2] < tb[2]
                  \/ ta[1] = tb[1] /\ ta[2] = tb[2] /\ ta[3] < tb[3]
            /\ applied.ret = "Equal" <=> ta = tb
            /\ partial_cmp(b, a) = Reverse(applied.ret)
            /\ partial_cmp(a, a) = "Equal"
            /\ \A s \in ComparedStrings :
                  (AtMost(applied.ret) /\ AtMost(partial_cmp(b, SdkVersion(s))))
                     => AtMost(partial_cmp(a, SdkVersion(s)))
            /\ (Malformed(a) /\ Malformed(b)) => applied.ret = "Equal"
   /\ Called("eq") => applied.ret = (applied.args[1] = applied.args[2])

\* Two different strings that do not parse were compared and came out Equal.
C11_Witness ==
   /\ Called("partial_cmp")
   /\ Malformed(SdkVersion(applied.args[1]))
   /\ Malformed(SdkVersion(applied.args[2]))
   /\ applied.args[1] # applied.args[2]
   /\ ~SdkVersion_eq(SdkVersion(applied.args[1]), SdkVersion(applied.args[2]))
   /\ applied.ret = "Equal"

\* C12 as the specification states it: a string that does not parse compares
\* Less than every string that parses.
C12_InvalidSortsLess ==
   (/\ Called("partial_cmp")
    /\ Malformed(SdkVersion(applied.args[1]))
    /\ ~Malformed(SdkVersion(applied.args[2])))
      => applied.ret = "Less"

\* What the claims say of a version string, read off its characters.
Parts(s) == Split(s, ".")
AllDigits(part) == Len(part) > 0 /\ \A i \in 1..Len(part) : IsAsciiDigit(part[i])
Unsigned(part) == IF Len(part) > 0 /\ part[1] = "+" THEN Tail(part) ELSE part
PartValue(part) == DecimalValue(Unsigned(part))
InRange(part) == PartValue(part) >= 0 /\ PartValue(part) <= 255
Padded(s) ==
   [i \in 1..3 |-> IF i <= Len(Parts(s)) THEN PartValue(Parts(s)[i]) ELSE 0]
Canonical(part) == AllDigits(part) /\ (Len(part) > 1 => part[1] # "0")

\* C13: for a string of 1, 2 or 3 dot-separated components, each of decimal
\* digits and each at most 255, normalized_version gives the components padded
\* with zeros to a triple, semantic_version gives the three numbers of that
\* triple in canonical decimal form joined by dots, and semantic_version of that
\* output gives the output again.
C13_CanonicalForm ==
   LET s == applied.args
       good == /\ Len(Parts(s)) \in 1..3
               /\ \A i \in 1..Len(Parts(s)) : AllDigits(Parts(s)[i]) /\ InRange(Parts(s)[i])
   IN /\ (Called("normalized_version") /\ good) => applied.ret = Ok(Padded(s))
      /\ (Called("semantic_version") /\ good) =>
            /\ IsOk(applied.ret)
            /\ Len(Parts(applied.ret.val)) = 3
            /\ \A i \in 1..3 :
                  /\ Canonical(Parts(applied.ret.val)[i])
                  /\ PartValue(Parts(applied.ret.val)[i]) = Padded(s)[i]
            /\ semantic_version(SdkVersion(applied.ret.val)) = applied.ret

\* A string of two components, one written with a leading zero, was brought to
\* its canonical form, which differs from the string.
C13_Witness ==
   /\ Called("semantic_version")
   /\ Len(Parts(applied.args)) = 2
   /\ \A i \in 1..2 : AllDigits(Parts(applied.args)[i]) /\ InRange(Parts(applied.args)[i])
   /\ \E i \in 1..2 : ~Canonical(Parts(applied.args)[i])
   /\ IsOk(applied.ret)
   /\ applied.ret.val # applied.args

\* C13 as the specification states it: every string of 1, 2 or 3 components of
\* decimal digits parses and has a canonical form.
C13_EveryNumericString ==
   (/\ Called("normalized_version") \/ Called("semantic_version")
    /\ Len(Parts(applied.args)) \in 1..3
    /\ \A i \in 1..Len(Parts(applied.args)) : AllDigits(Parts(applied.args)[i]))
      => IsOk(applied.ret)

\* C14: normalized_version and semantic_version return VersionParse exactly
\* when the string has more than 3 parts, or a part that is not a number (one
\* or more decimal digits, which u8::from_str also takes with a "+" before
\* them), or a part beyond 255; otherwise the value is the exact one, never
\* wrapped and never zero in place of a part that was given.
C14_ParseFailsLoudly ==
   LET s == applied.args
       bad == \/ Len(Parts(s)) > 3
              \/ \E i \in 1..Len(Parts(s)) :
                    ~AllDigits(Unsigned(Parts(s)[i])) \/ ~InRange(Parts(s)[i])
   IN /\ Called("normalized_version") =>
            IF bad THEN applied.ret = Err("VersionParse") ELSE applied.ret = Ok(Padded(s))
      /\ Called("semantic_version") =>
            /\ bad <=> applied.ret = Err("VersionParse")
            /\ IsErr(applied.ret) <=> IsErr(normalized_version(SdkVersion(s)))

\* 256 was refused, and so were a string of four parts and one with an empty part.
C14_Witness ==
   /\ Called("normalized_version")
   /\ applied.ret = Err("VersionParse")
   /\ \E i \in 1..Len(Parts(applied.args)) :
         AllDigits(Parts(applied.args)[i]) /\ PartValue(Parts(applied.args)[i]) = 256
   /\ normalized_version(SdkVersion(<<"2", "5", "5">>)) = Ok(<<255, 0, 0>>)
   /\ Malformed(SdkVersion(<<"1", ".", "2", ".", "3", ".", "4">>))
   /\ Malformed(SdkVersion(<<"1", ".", ".", "2">>))

Known(tag) == [tag |-> tag]
KnownTags == {KnownPlatforms[i].tag : i \in 1..Len(KnownPlatforms)}
KnownNames == {KnownPlatforms[i].name : i \in 1..Len(KnownPlatforms)}

\* C15: two platforms are equal exactly when their filesystem names are the
\* same string: different known variants are unequal, Unknown of a variant's
\* name equals the variant; equality is reflexive, symmetric and transitive; and
\* from_str of a platform's filesystem name is equal to the platform.
C15_PlatformEquality ==
   /\ Called("ApplePlatform::eq") =>
         LET p == applied.args[1]
             q == applied.args[2]
         IN /\ applied.ret <=> filesystem_name(p) = filesystem_name(q)
            /\ (p.tag \in KnownTags /\ q.tag \in KnownTags) => (applied.ret <=> p.tag = q.tag)
            /\ (p.tag = "Unknown" /\ q.tag \in KnownTags) =>
                  (applied.ret <=>
                     \E i \in 1..Len(KnownPlatforms) :
                        KnownPlatforms[i].tag = q.tag /\ KnownPlatforms[i].name = p.name)
            /\ PlatformEq(p, p)
            /\ PlatformEq(q, p) = applied.ret
            /\ \A r \in Platforms : (applied.ret /\ PlatformEq(q, r)) => PlatformEq(p, r)
   /\ Called("ApplePlatform::from_str") =>
         /\ PlatformEq(applied.ret, applied.args)
         /\ filesystem_name(applied.ret) = filesystem_name(applied.args)

\* Unknown("MacOSX") was compared with MacOsX and found equal.
C15_Witness ==
   /\ Called("ApplePlatform::eq")
   /\ applied.args[1] = Unknown(<<"M","a","c","O","S","X">>)
   /\ applied.args[2] = Known("MacOsX")
   /\ applied.ret = TRUE

\* The name before ".platform" when the base name is <id>.platform with no dot
\* in <id>; the claim's form.
HasPlatformForm(chars) ==
   /\ ends_with(chars, <<".","p","l","a","t","f","o","r","m">>)
   /\ \A i \in 1..(Len(chars) - 9) : chars[i] # "."
PlatformId(chars) == SubSeq(chars, 1, Len(chars) - 9)

\* C16: from_platform_path succeeds exactly for a path whose base name is
\* <id>.platform, the dot being the first of the name, and gives the known
\* variant named <id> or else Unknown(<id>); every other base name (no dot, or
\* what follows the first dot is not "platform") and the path without a base
\* name give PathNotPlatform. ApplePlatformDirectory::from_path does the same
\* and keeps the path.
C16_PlatformPath ==
   LET path == applied.args
       chars == Chars(path[Len(path)])
       platform_of(i) == Known(KnownPlatforms[i].tag)
       want ==
          IF Len(path) > 0 /\ HasPlatformForm(chars)
          THEN IF PlatformId(chars) \in KnownNames
               THEN Ok(platform_of(CHOOSE i \in 1..Len(KnownPlatforms) :
                                      KnownPlatforms[i].name = PlatformId(chars)))
               ELSE Ok(Unknown(PlatformId(chars)))
          ELSE Err("PathNotPlatform")
   IN /\ Called("from_platform_path") => applied.ret = want
      /\ Called("ApplePlatformDirectory::from_path") =>
            applied.ret = IF IsOk(want) THEN Ok([path |-> path, platform |-> want.val])
                          ELSE want

\* A known platform directory and an unknown one were parsed, and a name with
\* two dots ending in .platform was refused.
C16_Witness ==
   /\ Called("from_platform_path")
   /\ applied.args = <<"Mac.OSX.platform">>
   /\ applied.ret = Err("PathNotPlatform")
   /\ from_platform_path(<<"iPhoneOS.platform">>) = Ok(Known("IPhoneOs"))
   /\ from_platform_path(<<"Foo.platform">>) = Ok(Unknown(<<"F","o","o">>))

\* The position of the first decimal digit of a name, or 0.
FirstDigit(chars) ==
   IF \E i \in 1..Len(chars) : IsAsciiDigit(chars[i])
   THEN CHOOSE i \in 1..Len(chars) :
           IsAsciiDigit(chars[i]) /\ \A j \in 1..(i - 1) : ~IsAsciiDigit(chars[j])
   ELSE 0

\* What the claim gives for a path and the characters of its final segment.
SplitAtFirstDigit(path, chars) ==
   LET dot == LastIndex(chars, ".")
       prefix == SubSeq(chars, 1, dot - 1)
       digit == FirstDigit(prefix)
   IN IF dot = 0 \/ SubSeq(chars, dot + 1, Len(chars)) # <<"s", "d", "k">>
      THEN Err("PathNotSdk")
      ELSE IF digit = 0
      THEN Ok([path |-> path, platform |-> ApplePlatform_from_str(prefix), version |-> None])
      ELSE Ok([path |-> path,
               platform |-> ApplePlatform_from_str(SubSeq(prefix, 1, digit - 1)),
               version |-> Some(SdkVersion(SubSeq(prefix, digit, Len(prefix))))])

\* C17 as the specification states it: a final segment that does not end in
\* ".sdk" is refused with PathNotSdk; otherwise what precedes ".sdk" is split at
\* its first decimal digit into the platform name and the version string, and
\* the version is None when there is no digit.
C17_SplitAtFirstDigit ==
   /\ (Called("SdkPath::from_path") /\ Len(applied.args) > 0) =>
         applied.ret = SplitAtFirstDigit(applied.args, Chars(Last(applied.args)))
   /\ Called("SdkPath::from_path of a segment") =>
         applied.ret = SplitAtFirstDigit(<<applied.args>>, applied.args)

Listed(answer) == {answer.entries[i] : i \in 1..Len(answer.entries)}
NameLess(a, b) == CmpStr(Chars(a), Chars(b)) = "Less"

\* C18: find_in_developer_directory gives exactly the children of
\* <dev_dir>/Platforms whose name is a platform directory's, each once with its
\* platform, the others skipped, in ascending order of path whatever the order
\* of the listing.
C18_PlatformDirectories ==
   (Called("find_in_developer_directory") /\ applied.args.answer.kind = "Ok") =>
      LET platforms_path == Join(applied.args.developer_dir, "Platforms")
          want == {e \in Listed(applied.args.answer) : HasPlatformForm(Chars(e))}
      IN /\ IsOk(applied.ret)
         /\ {applied.ret.val[i].path : i \in 1..Len(applied.ret.val)}
               = {Join(platforms_path, e) : e \in want}
         /\ Len(applied.ret.val) = Cardinality(want)
         /\ \A i \in 1..Len(applied.ret.val) :
               Ok(applied.ret.val[i].platform) = from_platform_path(applied.ret.val[i].path)
         /\ \A i, j \in 1..Len(applied.ret.val) :
               i < j => NameLess(Last(applied.ret.val[i].path), Last(applied.ret.val[j].path))

\* A listing that gave iPhoneOS.platform first, then an entry that is no
\* platform directory and MacOSX.platform, came back with MacOSX first.
C18_Witness ==
   /\ Called("find_in_developer_directory")
   /\ applied.args.answer.kind = "Ok"
   /\ Len(applied.args.answer.entries) >= 3
   /\ applied.args.answer.entries[1] = "iPhoneOS.platform"
   /\ applied.args.answer.entries[2] = "Info.plist"
   /\ applied.args.answer.entries[3] = "MacOSX.platform"
   /\ IsOk(applied.ret)
   /\ Len(applied.ret.val) >= 2
   /\ Last(applied.ret.val[1].path) # "iPhoneOS.platform"

\* C19: find_sdks_in_directory tries every child in listing order. If a child
\* fails with an error other than PathNotSdk, that error is the result and no
\* list is returned; if the listing itself fails (other than not found) the
\* result is that error; otherwise the result is the SDKs of the accepted
\* children in listing order, the children refused with PathNotSdk left out.
C19_SdksInDirectory ==
   Called("find_sdks_in_directory") =>
      LET answer == applied.args.answer
          tried(i) == from_directory(Join(applied.args.root, answer.entries[i]),
                                     applied.args.broken)
          accepted(i) == tried(i).kind = "Ok"
          aborts(i) == ~accepted(i) /\ tried(i) # Err("PathNotSdk")
          n == Len(answer.entries)
      IN IF answer.kind = "Denied" THEN applied.ret = Err("Io")
         ELSE IF answer.kind = "NotFound" THEN applied.ret = Ok(<<>>)
         ELSE IF \E i \in 1..n : aborts(i)
         THEN LET first == CHOOSE i \in 1..n : aborts(i) /\ \A j \in 1..(i - 1) : ~aborts(j)
              IN applied.ret = tried(first)
         ELSE /\ IsOk(applied.ret)
              /\ Len(applied.ret.val) = Cardinality({i \in 1..n : accepted(i)})
              /\ \A i \in 1..n : accepted(i) =>
                    applied.ret.val[Cardinality({j \in 1..i : accepted(j)})] = tried(i).val

\* The first child was accepted, a later child failed with an I/O error, and the
\* error came back in place of a list.
C19_Witness ==
   /\ Called("find_sdks_in_directory")
   /\ applied.args.answer.kind = "Ok"
   /\ Len(applied.args.answer.entries) >= 3
   /\ IsOk(from_directory(Join(applied.args.root, applied.args.answer.entries[1]),
                          applied.args.broken))
   /\ applied.args.answer.entries[2] = "README"
   /\ applied.args.answer.entries[3] \in applied.args.broken
   /\ applied.ret = Err("Io")

\* C20: find_xcode_apps gives exactly the entries whose name starts with
\* "Xcode" and ends with ".app", each once; Xcode.app stands first when it is
\* there and the others follow in ascending order of name; a missing
\* applications directory gives an empty list.
C20_XcodeApps ==
   Called("find_xcode_apps") =>
      LET answer == applied.args.answer
          dir == applied.args.applications_dir
          want == {e \in Listed(answer) :
                     /\ starts_with(Chars(e), <<"X","c","o","d","e">>)
                     /\ ends_with(Chars(e), <<".","a","p","p">>)}
      IN /\ answer.kind = "NotFound" => applied.ret = Ok(<<>>)
         /\ answer.kind = "Ok" =>
               /\ IsOk(applied.ret)
               /\ {applied.ret.val[i] : i \in 1..Len(applied.ret.val)}
                     = {Join(dir, e) : e \in want}
               /\ Len(applied.ret.val) = Cardinality(want)
               /\ "Xcode.app" \in want => applied.ret.val[1] = Join(dir, "Xcode.app")
               /\ \A i, j \in 1..Len(applied.ret.val) :
                     (i < j /\ Last(applied.ret.val[i]) # "Xcode.app")
                        => NameLess(Last(applied.ret.val[i]), Last(applied.ret.val[j]))

\* The listing gave XcodeBeta.app, Xcode-rc1.app, Xcode.app and another
\* application; the result is Xcode.app, Xcode-rc1.app, XcodeBeta.app.
C20_Witness ==
   /\ Called("find_xcode_apps")
   /\ applied.args.answer.kind = "Ok"
   /\ Len(applied.args.answer.entries) = 4
   /\ applied.args.answer.entries[1] = "XcodeBeta.app"
   /\ "Safari.app" \in Listed(applied.args.answer)
   /\ applied.ret = Ok(<<Join(APPLICATIONS_DIR, "Xcode.app"),
                         Join(APPLICATIONS_DIR, "Xcode-rc1.app"),
                         Join(APPLICATIONS_DIR, "XcodeBeta.app")>>)

\* The string s without the whitespace at its two ends, said without trim.
Trimmed(s, r) ==
   \E i \in 1..(Len(s) + 1), j \in 0..Len(s) :
      /\ r = SubSeq(s, i, j)
      /\ \A k \in (1..(i - 1)) \cup ((j + 1)..Len(s)) : is_whitespace(s[k])
      /\ Len(r) > 0 => ~is_whitespace(r[1]) /\ ~is_whitespace(r[Len(r)])

\* C21: default_developer_directory returns the value of DEVELOPER_DIR as it
\* is, untrimmed, whenever the variable is set, and then never runs the helper;
\* otherwise it runs the helper exactly once and returns its trimmed standard
\* output on a zero exit, XcodeSelectRun when the helper could not be started
\* and XcodeSelectBadStatus when it exited non-zero.
C21_DeveloperDirectory ==
   Called("default_developer_directory") =>
      LET os == applied.args.os
          helper == applied.args.helper
      IN IF os.present
         THEN applied.ret.value = Ok(PathBuf_from(os.value)) /\ applied.ret.runs = 0
         ELSE /\ applied.ret.runs = 1
              /\ helper.kind = "SpawnError" => applied.ret.value = Err("XcodeSelectRun")
              /\ (helper.kind = "Exit" /\ ~helper.success)
                    => applied.ret.value = Err("XcodeSelectBadStatus")
              /\ (helper.kind = "Exit" /\ helper.success)
                    => \E r \in {trim(helper.stdout)} :
                          /\ Trimmed(helper.stdout, r)
                          /\ applied.ret.value = Ok(PathBuf_from(r))

\* C22: every platform directory d that find_in_developer_directory(D) returns
\* has the path D/Platforms/<d.directory_name()>, which is also
\* d.path_in_developer_directory(D): the path made from the parsed platform is
\* the path the platform was parsed from.
C22_PathAndPlatformAgree ==
   (Called("find_in_developer_directory") /\ IsOk(applied.ret)) =>
      \A i \in 1..Len(applied.ret.val) :
         LET d == applied.ret.val[i]
             D == applied.args.developer_dir
         IN /\ Parent(d.path) = Join(D, "Platforms")
            /\ Chars(Last(d.path)) = directory_name(d.platform)
            /\ d.path = path_in_developer_directory(d.platform, D)

\* A result that holds a platform the library knows and two it does not, one
\* of them with a character outside ASCII in its name.
C22_Witness ==
   /\ Called("find_in_developer_directory")
   /\ IsOk(applied.ret)
   /\ Len(applied.ret.val) = 3
   /\ \E i \in 1..3 : applied.ret.val[i].platform = [tag |-> "MacOsX"]
   /\ \E i \in 1..3 : applied.ret.val[i].platform = Unknown(<<"F","o","o">>)
   /\ \E i \in 1..3 : applied.ret.val[i].platform = Unknown(<<"C","a","f",EAcute>>)

\* The second search has returned.
SearchedAgain(variant) ==
   applied.called /\ applied.fn = "search" /\ applied.variant = variant /\ pc = "done"

\* C23: a search repeated with the same configuration on the same machine
\* returns what the first search returned, the same SDKs in the same order,
\* whatever order the directories are listed in.
C23_Deterministic ==
   SearchedAgain("same") => result = applied.ret

\* The root candidates of a search in the order search() offers them to
\* append_dir, each with its kind.
Candidates ==
   (IF located.developer_dir.called /\ IsOk(located.developer_dir.ret)
    THEN <<[kind |-> "Developer", path |-> located.developer_dir.ret.val]>> ELSE <<>>)
   \o (IF located.command_line_tools.called /\ located.command_line_tools.ret.some
       THEN <<[kind |-> "Sdks", path |-> located.command_line_tools.ret.v]>> ELSE <<>>)
   \o (IF located.default_system_xcode.called /\ located.default_system_xcode.ret.some
       THEN <<[kind |-> "Developer", path |-> located.default_system_xcode.ret.v]>> ELSE <<>>)
   \o (IF located.system_xcodes.called /\ IsOk(located.system_xcodes.ret)
       THEN [i \in 1..Len(located.system_xcodes.ret.val) |->
               [kind |-> "Developer", path |-> located.system_xcodes.ret.val[i]]]
       ELSE <<>>)
   \o [i \in 1..Len(self.search_additional_developer_dirs) |->
         [kind |-> "Developer", path |-> self.search_additional_developer_dirs[i]]]
   \o [i \in 1..Len(self.search_additional_sdks_dirs) |->
         [kind |-> "Sdks", path |-> self.search_additional_sdks_dirs[i]]]

RootsCollected == pc \in {"loop", "done"} /\ root > 0

Root(i) == [kind |-> search_dirs[i].kind, path |-> search_dirs[i].path]

\* C24 (as amended): roots are deduplicated at insertion by path alone, in
\* first-seen order: a candidate becomes a root exactly when no earlier
\* candidate has its path, whatever the kinds, so a path registered with both
\* additional_developer_dir and additional_sdks_dir yields one root, of the
\* kind of its first candidate.
C24_DedupByPath ==
   RootsCollected =>
      LET firsts == {i \in 1..Len(Candidates) :
                       \A j \in 1..(i - 1) : Candidates[j].path # Candidates[i].path}
      IN /\ Len(search_dirs) = Cardinality(firsts)
         /\ \A i \in firsts :
               Root(Cardinality({j \in firsts : j <= i})) = Candidates[i]

\* The same path was registered as a developer directory and as an SDKs
\* directory: it is one root, a developer directory, and the search went
\* through it as such only.
C24_Witness ==
   /\ Returned_Ok
   /\ self.search_additional_developer_dirs = <<XcodeDeveloperDir>>
   /\ self.search_additional_sdks_dirs = <<XcodeDeveloperDir>>
   /\ Cardinality({i \in 1..Len(search_dirs) : search_dirs[i].path = XcodeDeveloperDir}) = 1
   /\ \A i \in 1..Len(search_dirs) :
         search_dirs[i].path = XcodeDeveloperDir => search_dirs[i].kind = "Developer"
   /\ \E i \in 1..Len(reads) :
         reads[i].op = "resolve" /\ reads[i].path = Join(XcodeDeveloperDir, "Platforms")
   /\ \A i \in 1..Len(reads) : reads[i].path # XcodeDeveloperDir

\* C24 as stated: a second entry is suppressed only when an earlier entry has
\* the same path and the same kind, so every candidate that differs from all
\* earlier ones in path or in kind is a root.
C24_DedupByPathAndKind ==
   RootsCollected =>
      \A i \in 1..Len(Candidates) : \E k \in 1..Len(search_dirs) : Root(k) = Candidates[i]

\* C25: SdkPath::from_path returns Ok or Err(PathNotSdk) for every path and
\* never panics, also when characters outside ASCII stand before the first
\* digit; on success the platform's filesystem name, then the version string if
\* there is one, then ".sdk" is the final segment of the path.
C25_FromPathTotal ==
   LET total(segment) ==
          /\ applied.ret.kind = "Ok" \/ applied.ret = Err("PathNotSdk")
          /\ applied.ret.kind = "Ok" =>
                filesystem_name(applied.ret.val.platform)
                   \o (IF applied.ret.val.version.some
                       THEN applied.ret.val.version.v.value ELSE <<>>)
                   \o <<".", "s", "d", "k">> = segment
   IN /\ (Called("SdkPath::from_path") /\ Len(applied.args) > 0) =>
            total(Chars(Last(applied.args)))
      /\ (Called("SdkPath::from_path") /\ Len(applied.args) = 0) =>
            applied.ret = Err("PathNotSdk")
      /\ Called("SdkPath::from_path of a segment") => total(applied.args)

\* A search of the one developer directory D: every built-in root is off, D is
\* the only additional directory and no filter is set.
SearchesOnly(D) ==
   /\ ~self.search_developer_dir
   /\ ~self.search_command_line_tools_sdks
   /\ ~self.search_default_system_xcode
   /\ ~self.search_system_xcodes
   /\ self.search_additional_developer_dirs = <<D>>
   /\ self.search_additional_sdks_dirs = <<>>
   /\ ~self.platform.some
   /\ ~self.minimum_version.some
   /\ ~self.maximum_version.some

\* What the search was answered when it read a directory, as a listing of the
\* Platforms directory and as the return of find_sdks_in_directory.
PlatformsAnswers(D) ==
   LET asked == {i \in 1..Len(reads) : reads[i].op = "resolve"}
       kind == reads[CHOOSE i \in asked : TRUE].kind
   IN IF kind = "Ok"
      THEN {[kind |-> "Ok", entries |-> l] : l \in Listings(Entries(Join(D, "Platforms")))}
      ELSE {[kind |-> kind]}

SdksAnswered(D) ==
   [dir \in {PlatformSdks(D, e) : e \in Entries(Join(D, "Platforms"))} |->
      LET asked == {i \in 1..Len(reads) : reads[i].op = "enumerate" /\ reads[i].path = dir}
      IN IF asked = {} THEN [kind |-> "NotAsked", val |-> <<>>]
         ELSE LET read == reads[CHOOSE i \in asked : TRUE]
              IN IF read.ret = "Ok" THEN Ok(read.val) ELSE Err("Io")]

\* C26: on the same file system, a search of the one developer directory D
\* returns what find_developer_sdks(D) returns: the same SDKs in the same
\* order, or the same error.
C26_SearchIsEnumeration ==
   \A D \in DeveloperDirChoices :
      (pc = "done" /\ SearchesOnly(D)) =>
         \A answer \in PlatformsAnswers(D) :
            result = find_developer_sdks(D, answer, SdksAnswered(D))

\* The search of the Xcode developer directory returned the SDKs of two
\* platform directories, an entry that is no SDK left out.
C26_Witness ==
   /\ Returned_Ok
   /\ SearchesOnly(XcodeDeveloperDir)
   /\ Len(result.val) = 3
   /\ \E i \in 1..3 : result.val[i].platform = [tag |-> "IPhoneOs"]
   /\ \E i \in 1..3 : result.val[i].platform = [tag |-> "MacOsX"]
   /\ \A answer \in PlatformsAnswers(XcodeDeveloperDir) :
         find_developer_sdks(XcodeDeveloperDir, answer, SdksAnswered(XcodeDeveloperDir))
            = Ok(result.val)

Filters == {"no_minimum_version", "no_maximum_version", "no_platform"}
VersionBounds == {"no_minimum_version", "no_maximum_version"}

\* The SDKs of a returned list.
Sdks_of(r) == {r.val[i] : i \in 1..Len(r.val)}

\* The second search's list without the SDKs the bounds of the first search
\* refuse: those without a version, below the minimum or above the maximum.
Unrefused(sdks) ==
   LET bounds == applied.args
       passes(sdk) ==
          /\ bounds.minimum_version.some =>
                /\ sdk.version.some
                /\ partial_cmp(sdk.version.v, bounds.minimum_version.v) # "Less"
          /\ bounds.maximum_version.some =>
                /\ sdk.version.some
                /\ partial_cmp(sdk.version.v, bounds.maximum_version.v) # "Greater"
   IN SelectSeq(sdks, passes)

====
